---- MODULE Spec2Model ----
(***************************************************************************)
(* Git Archiver: the archival engine (task manager, worker loop, metadata  *)
(* store) as a state machine.                                              *)
(*                                                                         *)
(* The worker loop and the task manager's interface are taken from         *)
(* docs/plans/2026-02-18-rust-tauri-rewrite-plan.md, the schema from the   *)
(* migration SQL; the bodies of the task handlers, which the repository    *)
(* only describes, follow the engine's specification.                      *)
(***************************************************************************)
EXTENDS Naturals, Sequences, FiniteSets

\* ------------------------------------------------------------------ bounds
MaxRepos == 1
MaxN == 2
MaxTasks == 2
MaxArchives == 2
MaxClock == 2
MaxPaths == 2
MaxStoreRepos == 2
MaxStoreArchives == 2
MaxCalls == 2
MaxNormalize == 2
MaxLogCalls == 102
MaxUiIds == 2
MaxUiRepos == 3
MaxInFlight == 2
MaxBarCalls == 2
MaxAvArchives == 2
MaxTimers == 2
MaxCommands == 2
MaxStarted == 3
MaxEvents == 2
MaxRtSeconds == 61
MaxRtMinutes == 61
MaxRtHours == 25
MaxRtDays == 400
MaxSources == 7
MaxSseTimers == 2
TickMs == 1000

\* ------------------------------------------------------- program constants
\* identity key shared by the global tasks (update-all, reconcile)
GlobalKey == 0
\* NULL of a DATETIME column
NULL == 0
\* task-store: the cap of the activity log
MAX_SSE_RECONNECT_ATTEMPTS == 5
SSE_RECONNECT_DELAY == 3000
\* setTimeout(setupLogStreaming, 3000)
ReconnectTimeout == 3000
MAX_LOG_ENTRIES == 100

RepoIds == 1 .. MaxRepos
Keys == RepoIds \cup {GlobalKey}
TaskIds == 1 .. MaxTasks
Paths == 1 .. MaxPaths

\* A working tree: path -> content, content 0 meaning "no such file".
NoFiles == [p \in Paths |-> 0]
TreeA == [p \in Paths |-> 1]
TreeB == [p \in Paths |-> IF p = 1 THEN 2 ELSE 0]
Trees == {TreeA, TreeB}
\* No mirror directory on disk (every tree of Trees holds a file).
NoMirror == NoFiles

\* The content digest of one file (fixed algorithm, injective on the contents used).
Md5 == [c \in 0 .. 2 |-> IF c = 0 THEN 0 ELSE 10 + c]

\* hash_directory: relative path -> hex digest of every file of the tree.
hash_directory(tree) == [p \in Paths |-> Md5[tree[p]]]

\* detect_changed_files: paths of curr that are new or whose digest differs.
detect_changed_files(prev, curr) == {p \in Paths : curr[p] # 0 /\ curr[p] # prev[p]}

CanonicalStatus == {"pending", "active", "archived", "deleted", "error"}
\* status strings a legacy JSON blob may carry
LegacyStatus == {"active", "pending", "cloned"}

\* import_legacy: a status outside the canonical set is coerced to pending.
CoerceStatus(s) == IF s \in CanonicalStatus THEN s ELSE "pending"

\* The url, owner and name columns of a row whose URL the model does not follow.
NoUrl == <<>>

AbsentRow == [status |-> "none", local_path |-> FALSE, last_cloned |-> NULL,
              last_updated |-> NULL, last_checked |-> NULL,
              url |-> NoUrl, owner |-> NoUrl, name |-> NoUrl]
NewRow == [status |-> "pending", local_path |-> FALSE, last_cloned |-> NULL,
           last_updated |-> NULL, last_checked |-> NULL,
           url |-> NoUrl, owner |-> NoUrl, name |-> NoUrl]

NoTask == [kind |-> "none", key |-> GlobalKey, pc |-> "none", stage |-> "none",
           curr |-> NoFiles, files |-> {}, incr |-> FALSE,
           todo |-> {}, repo |-> 0]

\* ---------------------------------------------------- URL utilities (lib/utils)
\* A string is a sequence of one-character strings.
Http == <<"h", "t", "t", "p", ":", "/", "/">>
Https == <<"h", "t", "t", "p", "s", ":", "/", "/">>
Www == <<"w", "w", "w", ".">>
GithubCom == <<"g", "i", "t", "h", "u", "b", ".", "c", "o", "m">>
GitHubCom == <<"G", "i", "t", "H", "u", "b", ".", "c", "o", "m">>
GitlabCom == <<"g", "i", "t", "l", "a", "b", ".", "c", "o", "m">>
DotGit == <<".", "g", "i", "t">>
Slash == <<"/">>
Space == <<" ">>

LowerLetters == {"a", "b", "c", "g", "h", "i", "l", "m", "o", "p", "r", "s", "t", "u", "w"}
UpperLetters == {"G", "H", "O", "R"}
Digits == {"1"}

StartsWith(s, p) == Len(s) >= Len(p) /\ SubSeq(s, 1, Len(p)) = p
EndsWith(s, p) == Len(s) >= Len(p) /\ SubSeq(s, Len(s) - Len(p) + 1, Len(s)) = p
DropFirst(s, n) == SubSeq(s, n + 1, Len(s))
DropLast(s, n) == SubSeq(s, 1, Len(s) - n)

\* String.prototype.trim: white space is removed from both ends.
RECURSIVE trimStart(_)
trimStart(s) == IF s # <<>> /\ Head(s) = " " THEN trimStart(Tail(s)) ELSE s

RECURSIVE trimEnd(_)
trimEnd(s) == IF s # <<>> /\ s[Len(s)] = " " THEN trimEnd(DropLast(s, 1)) ELSE s

trim(s) == trimEnd(trimStart(s))

\* String.prototype.toLowerCase, on the letters of the alphabet above.
toLowerChar(c) ==
    CASE c = "G" -> "g" [] c = "H" -> "h" [] c = "O" -> "o" [] c = "R" -> "r" [] OTHER -> c

toLowerCase(s) == [i \in 1 .. Len(s) |-> toLowerChar(s[i])]

\* replace(/\/+$/, ""): every trailing slash is removed.
RECURSIVE stripTrailingSlashes(_)
stripTrailingSlashes(s) ==
    IF s # <<>> /\ s[Len(s)] = "/" THEN stripTrailingSlashes(DropLast(s, 1)) ELSE s

\* normalizeRepoUrl: trim and lowercase, http:// -> https://, strip the
\* trailing slashes, then strip one .git suffix.
normalizeRepoUrl(url) ==
    LET lowered == toLowerCase(trim(url))
        upgraded == IF StartsWith(lowered, Http) THEN Https \o DropFirst(lowered, Len(Http))
                    ELSE lowered
        noslash == stripTrailingSlashes(upgraded)
    IN IF EndsWith(noslash, DotGit) THEN DropLast(noslash, Len(DotGit)) ELSE noslash

\* The character class [a-zA-Z0-9_.-] of the pattern.
NameChar(c) == c \in LowerLetters \cup UpperLetters \cup Digits \cup {"_", ".", "-"}

\* Matching of the pattern, piece by piece: P is the set of positions the
\* match of the pieces so far can have reached (every way to backtrack).
MatchAt(s, i, lit) == i + Len(lit) - 1 <= Len(s) /\ SubSeq(s, i, i + Len(lit) - 1) = lit
Lit(s, P, lit) == {p + Len(lit) : p \in {q \in P : MatchAt(s, q, lit)}}
Opt(s, P, lit) == P \cup Lit(s, P, lit)
Plus(s, P) ==
    {q \in 2 .. Len(s) + 1 : \E p \in P : p < q /\ \A i \in p .. q - 1 : NameChar(s[i])}

\* isValidGithubUrl: the trimmed string is not empty and matches
\* ^(https?:\/\/)?(www\.)?github\.com\/[a-zA-Z0-9_.-]+\/[a-zA-Z0-9_.-]+(\/)?(\.git)?\/?$
isValidGithubUrl(url) ==
    LET trimmed == trim(url)
        p1 == {1} \cup Lit(trimmed, {1}, Http) \cup Lit(trimmed, {1}, Https)
        p2 == Opt(trimmed, p1, Www)
        p3 == Lit(trimmed, p2, GithubCom \o Slash)
        p4 == Plus(trimmed, p3)
        p5 == Lit(trimmed, p4, Slash)
        p6 == Plus(trimmed, p5)
        p7 == Opt(trimmed, p6, Slash)
        p8 == Opt(trimmed, p7, DotGit)
        p9 == Opt(trimmed, p8, Slash)
    IN trimmed # <<>> /\ Len(trimmed) + 1 \in p9

\* The strings the URL functions are applied to: scheme, www. prefix, host,
\* path and tail in every combination, with and without surrounding blanks.
UrlSchemes == {<<>>, Http, Https}
UrlWww == {<<>>, Www}
UrlHosts == {GithubCom, GitHubCom, GitlabCom}
UrlPaths == {<<>>, <<"/", "o">>, <<"/", "o", "/", "r">>, <<"/", "O", "/", "R">>,
             <<"/", "o", "/", "t">>, <<"/", "o", "/", "r", "/", "t">>}
UrlTails == {<<>>, Slash, DotGit, DotGit \o Slash, Slash \o DotGit, DotGit \o DotGit,
             Slash \o Slash}
UrlBlanks == {<<>>, Space}
UrlInputs ==
    {b \o sc \o w \o h \o pth \o tl \o b :
        b \in UrlBlanks, sc \in UrlSchemes, w \in UrlWww, h \in UrlHosts,
        pth \in UrlPaths, tl \in UrlTails}


\* The part of a URL after the github.com host (scheme and www. prefix optional).
AfterHost(s) ==
    LET a == IF StartsWith(s, Https) THEN DropFirst(s, Len(Https))
             ELSE IF StartsWith(s, Http) THEN DropFirst(s, Len(Http)) ELSE s
        b == IF StartsWith(a, Www) THEN DropFirst(a, Len(Www)) ELSE a
    IN IF StartsWith(b, GithubCom) THEN DropFirst(b, Len(GithubCom)) ELSE <<>>

\* The pieces of a path between its slashes.
RECURSIVE Split(_)
Split(s) ==
    IF s = <<>> THEN << <<>> >>
    ELSE LET rest == Split(Tail(s)) IN
         IF Head(s) = "/" THEN << <<>> >> \o rest
         ELSE << <<Head(s)>> \o Head(rest) >> \o Tail(rest)

NonEmpty(x) == x # <<>>
Segments(path) == SelectSeq(Split(path), NonEmpty)

\* extract_owner_repo: the two path segments of a validated URL.
extract_owner_repo(url) ==
    LET segs == Segments(AfterHost(url)) IN <<segs[1], segs[2]>>

VARIABLES
    N,             \* semaphore size (max_concurrent_tasks)
    permits,       \* free semaphore permits
    queue,         \* the mpsc channel: task ids in FIFO order
    held,          \* task the worker loop received and holds while it awaits a permit (0: none)
    active_tasks,  \* DashMap identity key -> cancellation token (the id of the task it was made for; 0: no entry)
    cancelled,     \* tokens whose cancellation was signalled
    tasks,         \* task id -> the task and the position of its handler
    nextTid,
    ret,           \* what the last enqueue returned
    repos,         \* repositories table
    nextRepoId,    \* AUTOINCREMENT of repositories.id
    archives,      \* archives table
    nextArchiveId, \* AUTOINCREMENT of archives.id
    file_hashes,   \* file_hashes table, per repository: path -> digest
    mirror,        \* on-disk mirror per repository: NoMirror or a tree
    upstream,      \* the upstream's tree
    forge,         \* what the forge's metadata API reports for the repository
    now,           \* wall clock
    calls,         \* the last repository commands: the URL given and what the command returned
    url_in,        \* URL functions: the string they are applied to
    url_out,       \* the result of the normalizations applied so far
    url_prev,      \* the string the last normalization was applied to
    url_ok,        \* what isValidGithubUrl(url_in) returned ("unknown": not called)
    url_n,         \* number of normalizations applied
    activeTasks,   \* task-store: Map repo_url -> TaskProgress, as its entries in insertion order
    activityLog,   \* task-store: the activity entries, newest first
    logSeq,        \* id of the next activity entry
    ts_last,       \* task-store: the last call and whether it met an entry of its key
    rs_repos,      \* repo-store: repos
    loading,       \* repo-store: loading
    rs_fetching,   \* fetchRepos calls awaiting list_repos
    rs_deleting,   \* ids of the deleteRepo calls awaiting delete_repo
    rs_last,       \* repo-store: the last call that settled and how it ended for its caller
    ss,            \* useSettingsStore: settings and loading; fetching and saving are the calls in flight, last the call that settled last
    bar,           \* AddRepoBar: url and loading; calls are the arguments of its addRepo calls, last its last event
    av,            \* ArchiveViewer: archives (the ids of the rows), loading, deleteConfirmId; deleting counts the deleteArchive calls in flight per id, last is the last button pressed
    sy,            \* repo-store statusFilter, the pending setTimeout(fetchRepos) callbacks, the backend's repositories table and the commands in flight
    app,           \* the backend's task per repository URL, the "task-progress" events emitted and not yet handled, and the tasks started so far
    rt,            \* formatRelativeTime: the time between dateStr and now, and what the call returned
    sse            \* the legacy web front end's log stream: eventSource, the EventSource objects not closed, the pending setTimeout callbacks, sseReconnectAttempts

vars == <<N, permits, queue, held, active_tasks, cancelled, tasks, nextTid, ret,
          repos, nextRepoId, archives, nextArchiveId, file_hashes, mirror,
          upstream, forge, now, calls, url_in, url_out, url_prev, url_ok, url_n,
          activeTasks, activityLog, logSeq, ts_last,
          rs_repos, loading, rs_fetching, rs_deleting, rs_last,
          ss, bar, av, sy, app, rt, sse>>

urlVars == <<url_in, url_out, url_prev, url_ok, url_n>>
tsVars == <<activeTasks, activityLog, logSeq, ts_last>>
rsVars == <<rs_repos, loading, rs_fetching, rs_deleting, rs_last>>
\* The components and stores that have a specification of their own.
lateVars == <<ss, bar, av, sy, app, rt, sse>>
uiVars == <<urlVars, tsVars, rsVars, lateVars>>
\* What the engine's steps leave alone.
feVars == <<calls, uiVars>>

tmVars == <<N, permits, queue, held, active_tasks, cancelled, tasks, nextTid, ret>>
dbVars == <<repos, nextRepoId, archives, nextArchiveId, file_hashes>>
envVars == <<mirror, upstream, forge, now>>

Exists(r) == repos[r].status # "none"
Running == {t \in TaskIds : tasks[t].pc \notin {"none", "queued", "over"}}

\* The URL functions before any call.
UrlIdle ==
    /\ url_in = <<>>
    /\ url_out = <<>>
    /\ url_prev = <<>>
    /\ url_ok = "unknown"
    /\ url_n = 0

\* useTaskStore as created.
TsIdle ==
    /\ activeTasks = <<>>
    /\ activityLog = <<>>
    /\ logSeq = 1
    /\ ts_last = [op |-> "none", hit |-> FALSE]

NoCall == [op |-> "none", id |-> 0, backend |-> "none", outcome |-> "none"]

\* useRepoStore as created.
RsIdle ==
    /\ rs_repos = <<>>
    /\ loading = FALSE
    /\ rs_fetching = 0
    /\ rs_deleting = {}
    /\ rs_last = NoCall

\* settings-store: defaultSettings
defaultSettings == [data_dir |-> "data", archive_format |-> "tar.xz",
                    max_concurrent_tasks |-> 4, auto_check_interval_minutes |-> NULL]

NoSsCall == [op |-> "none", arg |-> defaultSettings, backend |-> "none", outcome |-> "none"]

\* useSettingsStore as created; no call in flight.
SsIdle ==
    [settings |-> defaultSettings, loading |-> FALSE, fetching |-> 0, saving |-> {},
     last |-> NoSsCall]

BarDid(event, outcome) == [event |-> event, outcome |-> outcome]

\* AddRepoBar as mounted.
BarIdle ==
    [url |-> <<>>, loading |-> FALSE, calls |-> <<>>, last |-> BarDid("none", "none")]

\* The ids of the Archive rows list_archives returns.
AvIds == 1 .. MaxAvArchives

AvPress(button, id) == [button |-> button, id |-> id]

\* ArchiveViewer as mounted.
AvIdle ==
    [archives |-> {}, loading |-> FALSE, deleteConfirmId |-> NULL,
     deleting |-> [id \in AvIds |-> 0], last |-> AvPress("none", NULL)]

\* repo-store: statusFilter null (no filter)
NoFilter == "null"

\* The store's filter as created, an empty backend table, nothing in flight.
SyIdle ==
    [statusFilter |-> NoFilter, timers |-> 0, table |-> <<>>, nextId |-> 1, inflight |-> <<>>]

\* No backend task, no event on its way.
AppIdle ==
    [stage |-> [u \in {"https://github.com/o/r", "https://github.com/o/t"} |-> "idle"],
     events |-> <<>>, started |-> 0]

NoPhrase == [n |-> 0, text |-> "none"]

\* formatRelativeTime not called.
RtIdle ==
    [diff |-> [past |-> TRUE, seconds |-> 0, millis |-> 0], out |-> NoPhrase]

\* The page as loaded: let eventSource = null; let sseReconnectAttempts = 0.
SseIdle ==
    [eventSource |-> 0, open |-> {}, nextEs |-> 1, timers |-> <<>>,
     sseReconnectAttempts |-> 0, reruns |-> 0, delays |-> {}]

\* The parts of the front end that a specification does not follow, as created.
LateIdle ==
    /\ ss = SsIdle
    /\ bar = BarIdle
    /\ av = AvIdle
    /\ sy = SyIdle
    /\ app = AppIdle
    /\ rt = RtIdle
    /\ sse = SseIdle

Init ==
    /\ calls = <<>>
    /\ UrlIdle
    /\ TsIdle
    /\ RsIdle
    /\ LateIdle
    /\ N \in 1 .. MaxN
    /\ permits = N
    /\ queue = <<>>
    /\ held = 0
    /\ active_tasks = [k \in Keys |-> 0]
    /\ cancelled = {}
    /\ tasks = [t \in TaskIds |-> NoTask]
    /\ nextTid = 1
    /\ ret = "none"
    /\ repos = [r \in RepoIds |-> AbsentRow]
    /\ nextRepoId = 1
    /\ archives = {}
    /\ nextArchiveId = 1
    /\ file_hashes = [r \in RepoIds |-> NoFiles]
    /\ mirror = [r \in RepoIds |-> NoMirror]
    /\ upstream = [r \in RepoIds |-> TreeA]
    /\ forge = [r \in RepoIds |-> "active"]
    /\ now = 1

\* ------------------------------------------------------------ task manager

\* Variant of Enqueue: the dedup check is missing, every call registers and sends.
EnqueueNoDedup(kind, k) ==
    /\ nextTid <= MaxTasks
    /\ ret' = "ok"
    /\ active_tasks' = [active_tasks EXCEPT ![k] = nextTid]
    /\ tasks' = [tasks EXCEPT ![nextTid] =
                    [NoTask EXCEPT !.kind = kind, !.key = k, !.pc = "queued"]]
    /\ queue' = Append(queue, nextTid)
    /\ nextTid' = nextTid + 1
    /\ UNCHANGED <<feVars, N, permits, held, cancelled>>
    /\ UNCHANGED <<dbVars, envVars>>

\* TaskManager::enqueue: dedup check via active_tasks, then tx.send(task).
Enqueue(kind, k) ==
    /\ IF active_tasks[k] # 0
       THEN /\ ret' = "AlreadyInProgress"
            /\ UNCHANGED <<queue, active_tasks, tasks, nextTid>>
       ELSE /\ nextTid <= MaxTasks
            /\ ret' = "ok"
            /\ active_tasks' = [active_tasks EXCEPT ![k] = nextTid]
            /\ tasks' = [tasks EXCEPT ![nextTid] =
                            [NoTask EXCEPT !.kind = kind, !.key = k, !.pc = "queued"]]
            /\ queue' = Append(queue, nextTid)
            /\ nextTid' = nextTid + 1
    /\ UNCHANGED <<feVars, N, permits, held, cancelled>>
    /\ UNCHANGED <<dbVars, envVars>>

\* enqueue_update(id): Task::Clone / Task::Update, identity = the repo id.
EnqueueUpdate(r) == Enqueue("ensure", r)

\* enqueue_reconcile(): Task::RefreshStatuses, identity = the well-known key.
EnqueueReconcile == Enqueue("reconcile", GlobalKey)

\* TaskManager::cancel: signals the token registered under the key and drops
\* the entry (is_active is false right after cancel); idempotent.
Cancel(k) ==
    /\ active_tasks[k] # 0
    /\ cancelled' = cancelled \cup {active_tasks[k]}
    /\ active_tasks' = [active_tasks EXCEPT ![k] = 0]
    /\ UNCHANGED <<feVars, N, permits, queue, held, tasks, nextTid, ret>>
    /\ UNCHANGED <<dbVars, envVars>>

\* TaskManager::cancel_all (stop_all_tasks): every registered token is
\* signalled and active_count() is 0 afterwards.
CancelAll ==
    /\ \E k \in Keys : active_tasks[k] # 0
    /\ cancelled' = cancelled \cup {active_tasks[k] : k \in {j \in Keys : active_tasks[j] # 0}}
    /\ active_tasks' = [k \in Keys |-> 0]
    /\ UNCHANGED <<feVars, N, permits, queue, held, tasks, nextTid, ret>>
    /\ UNCHANGED <<dbVars, envVars>>

\* worker_loop: task = rx.recv().await
WorkerRecv ==
    /\ held = 0
    /\ queue # <<>>
    /\ held' = Head(queue)
    /\ queue' = Tail(queue)
    /\ UNCHANGED <<feVars, N, permits, active_tasks, cancelled, tasks, nextTid, ret>>
    /\ UNCHANGED <<dbVars, envVars>>

\* Variant of WorkerSpawn: the task is spawned without waiting for a permit.
WorkerSpawnNoPermit ==
    /\ held # 0
    /\ permits' = IF permits > 0 THEN permits - 1 ELSE 0
    /\ tasks' = [tasks EXCEPT ![held].pc = "spawned"]
    /\ held' = 0
    /\ UNCHANGED <<feVars, N, queue, active_tasks, cancelled, nextTid, ret>>
    /\ UNCHANGED <<dbVars, envVars>>

\* worker_loop: permit = semaphore.acquire_owned().await; tokio::spawn(handler)
WorkerSpawn ==
    /\ held # 0
    /\ permits > 0
    /\ permits' = permits - 1
    /\ tasks' = [tasks EXCEPT ![held].pc = "spawned"]
    /\ held' = 0
    /\ UNCHANGED <<feVars, N, queue, active_tasks, cancelled, nextTid, ret>>
    /\ UNCHANGED <<dbVars, envVars>>

\* TaskManager::mark_complete: the entry under the key is removed.
mark_complete(k) == [active_tasks EXCEPT ![k] = 0]

\* The record of a task that is over: only its last TaskProgress stage is kept.
Over(t, stage) ==
    [NoTask EXCEPT !.kind = tasks[t].kind, !.key = tasks[t].key, !.pc = "over", !.stage = stage]

\* The end of a per-repo handler (handle_clone / handle_update, which hold the
\* task manager): the last TaskProgress is published, the identity is released
\* with mark_complete, the token dropped with the task and the permit dropped.
Finish(t, stage) ==
    /\ tasks' = [tasks EXCEPT ![t] = Over(t, stage)]
    /\ active_tasks' = mark_complete(tasks[t].key)
    /\ cancelled' = cancelled \ {t}
    /\ permits' = permits + 1
    /\ UNCHANGED <<feVars, N, queue, held, nextTid, ret>>

\* The end of handle_refresh, which is not given the task manager: the permit
\* is dropped, active_tasks is left as it is.
FinishRefresh(t, stage) ==
    /\ tasks' = [tasks EXCEPT ![t] = Over(t, stage)]
    /\ permits' = permits + 1
    /\ UNCHANGED <<feVars, N, queue, held, active_tasks, cancelled, nextTid, ret>>

\* A handler step that goes on to the next stage.
Goto(t, pc, stage) ==
    /\ tasks' = [tasks EXCEPT ![t].pc = pc, ![t].stage = stage]
    /\ UNCHANGED <<feVars, N, permits, queue, held, active_tasks, cancelled, nextTid, ret>>

\* ------------------------------------------------------------ metadata store

\* update_repo_status / update_repo_timestamps: an UPDATE of a row that is gone changes nothing.
UpdateRow(r, row) == IF Exists(r) THEN [repos EXCEPT ![r] = row] ELSE repos

SetError(r) == UpdateRow(r, [repos[r] EXCEPT !.status = "error"])

\* Archive.insert: the new row takes the next AUTOINCREMENT id.
insert_archive(r, count, incremental) ==
    archives \cup {[id |-> nextArchiveId, repo_id |-> r, file_count |-> count,
                    incremental |-> incremental]}

\* Variant of replace_set: the digests are upserted, rows of vanished paths stay.
upsert_set(r, m) ==
    [file_hashes EXCEPT ![r] = [p \in Paths |-> IF m[p] # 0 THEN m[p] ELSE file_hashes[r][p]]]

\* FileHash.replace_set: the stored set of the repository becomes exactly m.
replace_set(r, m) == [file_hashes EXCEPT ![r] = m]

\* add_repo(url): a new Repository in status pending.
AddRepo ==
    /\ nextRepoId <= MaxRepos
    /\ repos' = [repos EXCEPT ![nextRepoId] = NewRow]
    /\ nextRepoId' = nextRepoId + 1
    /\ UNCHANGED <<archives, nextArchiveId, file_hashes>>
    /\ UNCHANGED <<feVars, tmVars, envVars>>

\* Variant of DeleteRepo: the cascade takes the Archive rows of every repository.
DeleteRepoAllArchives(r, remove_files) ==
    /\ Exists(r)
    /\ repos' = [repos EXCEPT ![r] = AbsentRow]
    /\ archives' = {}
    /\ file_hashes' = [file_hashes EXCEPT ![r] = NoFiles]
    /\ mirror' = IF remove_files THEN [mirror EXCEPT ![r] = NoMirror] ELSE mirror
    /\ UNCHANGED <<nextRepoId, nextArchiveId, upstream, forge, now>>
    /\ UNCHANGED <<feVars, tmVars>>

\* delete_repo(id, remove_files): ON DELETE CASCADE removes the Archive and FileHash rows.
DeleteRepo(r, remove_files) ==
    /\ Exists(r)
    /\ repos' = [repos EXCEPT ![r] = AbsentRow]
    /\ archives' = {a \in archives : a.repo_id # r}
    /\ file_hashes' = [file_hashes EXCEPT ![r] = NoFiles]
    /\ mirror' = IF remove_files THEN [mirror EXCEPT ![r] = NoMirror] ELSE mirror
    /\ UNCHANGED <<nextRepoId, nextArchiveId, upstream, forge, now>>
    /\ UNCHANGED <<feVars, tmVars>>

\* delete_archive(archive_id): the row (and its file) is removed, whichever row it is.
DeleteArchive(a) ==
    /\ a \in archives
    /\ archives' = archives \ {a}
    /\ UNCHANGED <<repos, nextRepoId, nextArchiveId, file_hashes>>
    /\ UNCHANGED <<feVars, tmVars, envVars>>

\* import_legacy(blob), one key of the blob: a Repository is inserted with the
\* legacy fields, then one Archive row per file found under <local_path>/versions.
ImportLegacy(status, last_cloned, local_path, found) ==
    /\ nextRepoId <= MaxRepos
    /\ found > 0 => local_path /\ nextArchiveId <= MaxArchives
    /\ repos' = [repos EXCEPT ![nextRepoId] =
                    [NewRow EXCEPT !.status = CoerceStatus(status),
                                   !.last_cloned = last_cloned,
                                   !.local_path = local_path]]
    /\ nextRepoId' = nextRepoId + 1
    /\ archives' = IF found > 0 THEN insert_archive(nextRepoId, 0, FALSE) ELSE archives
    /\ nextArchiveId' = nextArchiveId + found
    /\ mirror' = IF local_path THEN [mirror EXCEPT ![nextRepoId] = TreeA] ELSE mirror
    /\ UNCHANGED <<file_hashes, upstream, forge, now>>
    /\ UNCHANGED <<feVars, tmVars>>

\* ------------------------------------------------- worker: EnsureMirrored

\* Variant of IsCancelled: the handler never looks at its token.
NeverCancelled(t) == FALSE

\* The task's cancellation signal, checked when a stage returns.
IsCancelled(t) == t \in cancelled

At(t, kind, pc) == tasks[t].kind = kind /\ tasks[t].pc = pc

\* Read Repository; clone when there is no mirror, fetch otherwise.
Begin(t) ==
    /\ At(t, "ensure", "spawned")
    /\ LET r == tasks[t].key IN
       IF IsCancelled(t) THEN Finish(t, "Cancelled")
       ELSE IF ~Exists(r) THEN Finish(t, "Failed")
       ELSE IF ~repos[r].local_path \/ mirror[r] = NoMirror
            THEN Goto(t, "cloning", "Cloning")
            ELSE Goto(t, "fetching", "Fetching")
    /\ UNCHANGED <<dbVars, envVars>>

\* C3.clone returns (ok: whether the transfer succeeded).
CloneDone(t, ok) ==
    /\ At(t, "ensure", "cloning")
    /\ LET r == tasks[t].key IN
       IF IsCancelled(t)
       THEN /\ Finish(t, "Cancelled")
            /\ UNCHANGED <<repos, mirror>>
       ELSE IF forge[r] = "not_found"
       THEN /\ Finish(t, "Done")
            /\ repos' = UpdateRow(r, [repos[r] EXCEPT !.status = "deleted"])
            /\ UNCHANGED mirror
       ELSE IF ~ok
       THEN /\ Finish(t, "Failed")
            /\ repos' = SetError(r)
            /\ UNCHANGED mirror
       ELSE /\ Goto(t, "hashing", "Archiving")
            /\ mirror' = [mirror EXCEPT ![r] = upstream[r]]
            /\ repos' = UpdateRow(r, [repos[r] EXCEPT !.status = "active",
                                                      !.local_path = TRUE,
                                                      !.last_cloned = now])
    /\ UNCHANGED <<nextRepoId, archives, nextArchiveId, file_hashes, upstream, forge, now>>

\* fetch_and_check_updates: the remote HEAD differs from the local HEAD.
fetch_and_check_updates(r) == upstream[r] # mirror[r]

\* Variant of FetchDone: every successful fetch counts as an update.
FetchDoneAlwaysUpdated(t, ok) ==
    /\ At(t, "ensure", "fetching")
    /\ LET r == tasks[t].key IN
       IF IsCancelled(t)
       THEN /\ Finish(t, "Cancelled")
            /\ UNCHANGED repos
       ELSE IF ~ok \/ mirror[r] = NoMirror
       THEN /\ Finish(t, "Failed")
            /\ repos' = SetError(r)
       ELSE /\ Goto(t, "hashing", "Archiving")
            /\ repos' = UpdateRow(r, [repos[r] EXCEPT !.last_updated = now])
    /\ UNCHANGED <<nextRepoId, archives, nextArchiveId, file_hashes, envVars>>

\* fetch_and_check_updates returns.
FetchDone(t, ok) ==
    /\ At(t, "ensure", "fetching")
    /\ LET r == tasks[t].key IN
       IF IsCancelled(t)
       THEN /\ Finish(t, "Cancelled")
            /\ UNCHANGED repos
       ELSE IF ~ok \/ mirror[r] = NoMirror
       THEN /\ Finish(t, "Failed")
            /\ repos' = SetError(r)
       ELSE IF fetch_and_check_updates(r)
       THEN /\ Goto(t, "pulling", "Fetching")
            /\ UNCHANGED repos
       ELSE /\ Finish(t, "Done")
            /\ UNCHANGED repos
    /\ UNCHANGED <<nextRepoId, archives, nextArchiveId, file_hashes, envVars>>

\* C3.pull_fast_forward returns; last_updated is set only when a ref advanced.
PullDone(t, ok) ==
    /\ At(t, "ensure", "pulling")
    /\ LET r == tasks[t].key IN
       IF IsCancelled(t)
       THEN /\ Finish(t, "Cancelled")
            /\ UNCHANGED <<repos, mirror>>
       ELSE IF ~ok \/ mirror[r] = NoMirror
       THEN /\ Finish(t, "Failed")
            /\ repos' = SetError(r)
            /\ UNCHANGED mirror
       ELSE IF upstream[r] # mirror[r]
       THEN /\ Goto(t, "hashing", "Archiving")
            /\ mirror' = [mirror EXCEPT ![r] = upstream[r]]
            /\ repos' = UpdateRow(r, [repos[r] EXCEPT !.last_updated = now])
       ELSE /\ Finish(t, "Done")
            /\ UNCHANGED <<repos, mirror>>
    /\ UNCHANGED <<nextRepoId, archives, nextArchiveId, file_hashes, upstream, forge, now>>

\* Snapshot phase: curr = hash_directory(mirror), prev = get_file_hashes; full
\* snapshot when prev is empty, else incremental over the changed files,
\* skipped when there are none.
HashDone(t) ==
    /\ At(t, "ensure", "hashing")
    /\ LET r == tasks[t].key IN
       IF IsCancelled(t)
       THEN /\ Finish(t, "Cancelled")
            /\ UNCHANGED repos
       ELSE IF mirror[r] = NoMirror
       THEN /\ Finish(t, "Failed")
            /\ repos' = SetError(r)
       ELSE LET curr == hash_directory(mirror[r])
                prev == file_hashes[r]
                full == prev = NoFiles
                files == IF full THEN {p \in Paths : curr[p] # 0} ELSE detect_changed_files(prev, curr)
            IN IF files = {}
               THEN /\ Finish(t, "Done")
                    /\ UNCHANGED repos
               ELSE /\ tasks' = [tasks EXCEPT ![t].pc = "packing", ![t].curr = curr,
                                              ![t].files = files, ![t].incr = ~full]
                    /\ UNCHANGED <<feVars, N, permits, queue, held, active_tasks, cancelled,
                                   nextTid, ret, repos>>
    /\ UNCHANGED <<nextRepoId, archives, nextArchiveId, file_hashes, envVars>>

\* C5.pack returns; on cancellation or failure the temporary file is removed.
PackDone(t, ok) ==
    /\ At(t, "ensure", "packing")
    /\ LET r == tasks[t].key IN
       IF IsCancelled(t)
       THEN /\ Finish(t, "Cancelled")
            /\ UNCHANGED repos
       ELSE IF ~ok
       THEN /\ Finish(t, "Failed")
            /\ repos' = SetError(r)
       ELSE /\ Goto(t, "commit", "Archiving")
            /\ UNCHANGED repos
    /\ UNCHANGED <<nextRepoId, archives, nextArchiveId, file_hashes, envVars>>

\* The snapshot transaction commits: Archive row, FileHash set and last_updated together.
CommitTxn(t) ==
    LET r == tasks[t].key IN
    /\ archives' = insert_archive(r, Cardinality(tasks[t].files), tasks[t].incr)
    /\ nextArchiveId' = nextArchiveId + 1
    /\ file_hashes' = replace_set(r, tasks[t].curr)
    /\ repos' = [repos EXCEPT ![r].last_updated = now]

\* Variant of RollbackTxn: the Archive row inserted before the failure stays.
RollbackTxnKeepsRow(t) ==
    /\ nextArchiveId <= MaxArchives
    /\ repos' = SetError(tasks[t].key)
    /\ archives' = insert_archive(tasks[t].key, Cardinality(tasks[t].files), tasks[t].incr)
    /\ nextArchiveId' = nextArchiveId + 1
    /\ UNCHANGED file_hashes

\* The snapshot transaction fails and is rolled back; the failure is terminal.
RollbackTxn(t) ==
    /\ repos' = SetError(tasks[t].key)
    /\ UNCHANGED <<archives, nextArchiveId, file_hashes>>

\* Atomic commit of the snapshot (ok: whether the storage accepts the transaction;
\* a Repository deleted meanwhile fails the foreign key).
Commit(t, ok) ==
    /\ At(t, "ensure", "commit")
    /\ IF ok /\ Exists(tasks[t].key)
       THEN /\ nextArchiveId <= MaxArchives
            /\ CommitTxn(t)
            /\ Finish(t, "Done")
       ELSE /\ RollbackTxn(t)
            /\ Finish(t, "Failed")
    /\ UNCHANGED <<nextRepoId, envVars>>

\* ------------------------------------------------ worker: ReconcileStatus

\* Variant of StatusOf: the 404 answer is not told apart from a live repository.
StatusOfNo404(f) == IF f = "archived" THEN "archived" ELSE "active"

\* detect_repo_statuses: not_found -> deleted, archived -> archived, else active.
StatusOf(f) == IF f = "not_found" THEN "deleted"
               ELSE IF f = "archived" THEN "archived" ELSE "active"

\* handle_refresh: one chunk in one transaction; the subjects in failedSubjects
\* got no answer from the forge and are left as they are.
Reconcile(t, failedSubjects) ==
    /\ At(t, "reconcile", "spawned")
    /\ FinishRefresh(t, "Done")
    /\ repos' = [r \in RepoIds |->
                    IF Exists(r) /\ r \notin failedSubjects
                    THEN [repos[r] EXCEPT !.status = StatusOf(forge[r]),
                                          !.last_checked = now]
                    ELSE repos[r]]
    /\ UNCHANGED <<nextRepoId, archives, nextArchiveId, file_hashes, envVars>>

\* ------------------------------------------------------------- environment

\* The upstream repository changes.
UpstreamPush(r, tree) ==
    /\ Exists(r)
    /\ tree # upstream[r]
    /\ upstream' = [upstream EXCEPT ![r] = tree]
    /\ UNCHANGED <<mirror, forge, now>>
    /\ UNCHANGED <<feVars, tmVars, dbVars>>

\* The upstream is archived, deleted or restored on the forge.
ForgeChange(r, f) ==
    /\ Exists(r)
    /\ f # forge[r]
    /\ forge' = [forge EXCEPT ![r] = f]
    /\ UNCHANGED <<mirror, upstream, now>>
    /\ UNCHANGED <<feVars, tmVars, dbVars>>

Tick ==
    /\ now < MaxClock
    /\ now' = now + 1
    /\ UNCHANGED <<mirror, upstream, forge>>
    /\ UNCHANGED <<feVars, tmVars, dbVars>>

Next ==
    \/ \E r \in RepoIds : EnqueueUpdate(r)
    \/ EnqueueReconcile
    \/ \E k \in Keys : Cancel(k)
    \/ CancelAll
    \/ WorkerRecv
    \/ WorkerSpawn
    \/ AddRepo
    \/ \E r \in RepoIds, rm \in BOOLEAN : DeleteRepo(r, rm)
    \/ \E a \in archives : DeleteArchive(a)
    \/ \E s \in LegacyStatus, lc \in {NULL, 1}, lp \in BOOLEAN, n \in 0 .. 1 :
          ImportLegacy(s, lc, lp, n)
    \/ \E t \in TaskIds : Begin(t)
    \/ \E t \in TaskIds, ok \in BOOLEAN : CloneDone(t, ok)
    \/ \E t \in TaskIds, ok \in BOOLEAN : FetchDone(t, ok)
    \/ \E t \in TaskIds, ok \in BOOLEAN : PullDone(t, ok)
    \/ \E t \in TaskIds : HashDone(t)
    \/ \E t \in TaskIds, ok \in BOOLEAN : PackDone(t, ok)
    \/ \E t \in TaskIds, ok \in BOOLEAN : Commit(t, ok)
    \/ \E t \in TaskIds, F \in SUBSET RepoIds : Reconcile(t, F)
    \/ \E r \in RepoIds, tree \in Trees : UpstreamPush(r, tree)
    \/ \E r \in RepoIds, f \in {"active", "archived", "not_found"} : ForgeChange(r, f)
    \/ Tick

Spec == Init /\ [][Next]_vars

\* ------------------------------------------------------ worker: update-all

\* enqueue_update_all(include_archived): Task::UpdateAll, identity = the
\* well-known key.
EnqueueUpdateAll == Enqueue("update_all", GlobalKey)

\* The Repositories an update-all run takes up.
Subjects(include_archived) ==
    {r \in RepoIds : Exists(r) /\ (include_archived \/ repos[r].status # "archived")}

\* handle_update_all: the Repositories are listed.
UpdateAllBegin(t, include_archived) ==
    /\ At(t, "update_all", "spawned")
    /\ IF IsCancelled(t)
       THEN Finish(t, "Cancelled")
       ELSE /\ tasks' = [tasks EXCEPT ![t].pc = "listed",
                                      ![t].todo = Subjects(include_archived)]
            /\ UNCHANGED <<feVars, N, permits, queue, held, active_tasks, cancelled,
                           nextTid, ret>>
    /\ UNCHANGED <<dbVars, envVars>>

\* handle_update_all: EnsureMirrored starts on the next listed Repository, or
\* the handler ends when none is left.
UpdateAllEnter(t) ==
    /\ At(t, "update_all", "listed")
    /\ IF IsCancelled(t) THEN Finish(t, "Cancelled")
       ELSE IF tasks[t].todo = {} THEN Finish(t, "Done")
       ELSE LET r == CHOOSE x \in tasks[t].todo : \A y \in tasks[t].todo : x <= y IN
            /\ tasks' = [tasks EXCEPT ![t].pc = "mirroring", ![t].repo = r,
                                      ![t].todo = @ \ {r}, ![t].stage = "Fetching"]
            /\ UNCHANGED <<feVars, N, permits, queue, held, active_tasks, cancelled,
                           nextTid, ret>>
    /\ UNCHANGED <<dbVars, envVars>>

\* handle_update_all: the EnsureMirrored of the Repository at hand returns
\* (ok: whether the transfer succeeded). The mirror is cloned or fast-forwarded
\* to the upstream and the snapshot committed in this one step.
UpdateAllLeave(t, ok) ==
    /\ At(t, "update_all", "mirroring")
    /\ LET r == tasks[t].repo
           cloned == ~repos[r].local_path \/ mirror[r] = NoMirror
           curr == hash_directory(upstream[r])
           prev == file_hashes[r]
           full == prev = NoFiles
           files == IF full THEN {p \in Paths : curr[p] # 0}
                    ELSE detect_changed_files(prev, curr)
           snapshot == (cloned \/ upstream[r] # mirror[r]) /\ files # {}
           row == IF cloned
                  THEN [repos[r] EXCEPT !.status = "active", !.local_path = TRUE,
                                        !.last_cloned = now,
                                        !.last_updated = IF snapshot THEN now ELSE @]
                  ELSE IF upstream[r] # mirror[r]
                  THEN [repos[r] EXCEPT !.last_updated = now]
                  ELSE repos[r]
       IN IF ~Exists(r)
          THEN UNCHANGED <<repos, archives, nextArchiveId, file_hashes, mirror>>
          ELSE IF cloned /\ forge[r] = "not_found"
          THEN /\ repos' = UpdateRow(r, [repos[r] EXCEPT !.status = "deleted"])
               /\ UNCHANGED <<archives, nextArchiveId, file_hashes, mirror>>
          ELSE IF ~ok
          THEN /\ repos' = SetError(r)
               /\ UNCHANGED <<archives, nextArchiveId, file_hashes, mirror>>
          ELSE /\ mirror' = [mirror EXCEPT ![r] = upstream[r]]
               /\ repos' = UpdateRow(r, row)
               /\ IF snapshot
                  THEN /\ nextArchiveId <= MaxArchives
                       /\ archives' = insert_archive(r, Cardinality(files), ~full)
                       /\ nextArchiveId' = nextArchiveId + 1
                       /\ file_hashes' = replace_set(r, curr)
                  ELSE UNCHANGED <<archives, nextArchiveId, file_hashes>>
    /\ tasks' = [tasks EXCEPT ![t].pc = "listed", ![t].repo = 0]
    /\ UNCHANGED <<feVars, N, permits, queue, held, active_tasks, cancelled, nextTid, ret>>
    /\ UNCHANGED <<nextRepoId, upstream, forge, now>>

UpdateAllNext ==
    \/ \E r \in RepoIds : EnqueueUpdate(r)
    \/ EnqueueUpdateAll
    \/ WorkerRecv
    \/ WorkerSpawn
    \/ AddRepo
    \/ \E t \in TaskIds : Begin(t)
    \/ \E t \in TaskIds, ok \in BOOLEAN : CloneDone(t, ok)
    \/ \E t \in TaskIds, ok \in BOOLEAN : FetchDone(t, ok)
    \/ \E t \in TaskIds, ok \in BOOLEAN : PullDone(t, ok)
    \/ \E t \in TaskIds : HashDone(t)
    \/ \E t \in TaskIds, ok \in BOOLEAN : PackDone(t, ok)
    \/ \E t \in TaskIds, ok \in BOOLEAN : Commit(t, ok)
    \/ \E t \in TaskIds, ia \in BOOLEAN : UpdateAllBegin(t, ia)
    \/ \E t \in TaskIds : UpdateAllEnter(t)
    \/ \E t \in TaskIds, ok \in BOOLEAN : UpdateAllLeave(t, ok)
    \/ \E r \in RepoIds, tree \in Trees : UpstreamPush(r, tree)

UpdateAllSpec == Init /\ [][UpdateAllNext]_vars

\* ------------------------------------------------- the engine, scheduled fairly

\* One step of the handler of task t, whichever stage it is at.
HandlerStep(t) ==
    \/ Begin(t)
    \/ \E ok \in BOOLEAN : CloneDone(t, ok)
    \/ \E ok \in BOOLEAN : FetchDone(t, ok)
    \/ \E ok \in BOOLEAN : PullDone(t, ok)
    \/ HashDone(t)
    \/ \E ok \in BOOLEAN : PackDone(t, ok)
    \/ \E ok \in BOOLEAN : Commit(t, ok)
    \/ \E F \in SUBSET RepoIds : Reconcile(t, F)

FairNext ==
    \/ \E r \in RepoIds : EnqueueUpdate(r)
    \/ EnqueueReconcile
    \/ \E k \in Keys : Cancel(k)
    \/ WorkerRecv
    \/ WorkerSpawn
    \/ AddRepo
    \/ \E t \in TaskIds : HandlerStep(t)
    \/ \E r \in RepoIds, tree \in Trees : UpstreamPush(r, tree)

\* The worker loop's awaits return when they can (a queued task is received,
\* a free permit is taken) and the runtime keeps polling every spawned
\* handler, each stage of which comes back.
Fairness ==
    /\ WF_vars(WorkerRecv)
    /\ WF_vars(WorkerSpawn)
    /\ \A t \in TaskIds : WF_vars(HandlerStep(t))

FairSpec == Init /\ [][FairNext]_vars /\ Fairness

\* ------------------------------------------- repository commands and store
\* The store taken alone, with room for two repositories.
StoreRepoIds == 1 .. MaxStoreRepos

\* The URLs given to add_repo: three spellings of one repository, one of
\* them without scheme, a second repository and a foreign host.
AddInputs ==
    {Https \o GithubCom \o <<"/", "o", "/", "r">>,
     Http \o GitHubCom \o <<"/", "O", "/", "R">> \o DotGit \o Slash,
     GithubCom \o <<"/", "o", "/", "r">>,
     Https \o GithubCom \o <<"/", "o", "/", "t">>,
     Https \o GitlabCom \o <<"/", "o", "/", "r">>}

\* The record of a command that returned, the last MaxCalls of them kept.
Returned(url, result) ==
    LET all == Append(calls, [url |-> url, ret |-> result]) IN
    IF Len(all) > MaxCalls THEN Tail(all) ELSE all

\* Variant of Conflicts: the table has no uniqueness constraint.
NoConflicts(url, owner, name) == FALSE

\* UNIQUE url, UNIQUE(owner, name): a row that forbids the insert.
Conflicts(url, owner, name) ==
    \E r \in DOMAIN repos :
        /\ Exists(r)
        /\ repos[r].url = url \/ (repos[r].owner = owner /\ repos[r].name = name)

\* add_repo(url): normalize, validate, extract owner and name, insert_repo.
add_repo(given) ==
    LET url == normalizeRepoUrl(given) IN
    /\ IF ~isValidGithubUrl(url)
       THEN /\ calls' = Returned(given, "InvalidUrl")
            /\ UNCHANGED <<repos, nextRepoId>>
       ELSE LET on == extract_owner_repo(url) IN
            IF Conflicts(url, on[1], on[2])
            THEN /\ calls' = Returned(given, "DuplicateRepo")
                 /\ UNCHANGED <<repos, nextRepoId>>
            ELSE /\ nextRepoId <= MaxStoreRepos
                 /\ calls' = Returned(given, "ok")
                 /\ repos' = [repos EXCEPT ![nextRepoId] =
                                 [NewRow EXCEPT !.url = url, !.owner = on[1], !.name = on[2]]]
                 /\ nextRepoId' = nextRepoId + 1
    /\ UNCHANGED <<archives, nextArchiveId, file_hashes>>
    /\ UNCHANGED <<uiVars, tmVars, envVars>>

\* A snapshot of a repository is recorded: insert_archive and the FileHash set.
RecordArchive(r, tree, incremental) ==
    /\ Exists(r)
    /\ nextArchiveId <= MaxStoreArchives
    /\ archives' = insert_archive(r, Cardinality({p \in Paths : tree[p] # 0}), incremental)
    /\ nextArchiveId' = nextArchiveId + 1
    /\ file_hashes' = replace_set(r, hash_directory(tree))
    /\ UNCHANGED <<repos, nextRepoId>>
    /\ UNCHANGED <<feVars, tmVars, envVars>>

\* The engine at rest, its tables empty, with room for two repositories.
EngineIdle ==
    /\ N = 1
    /\ permits = 1
    /\ queue = <<>>
    /\ held = 0
    /\ active_tasks = [k \in Keys |-> 0]
    /\ cancelled = {}
    /\ tasks = [t \in TaskIds |-> NoTask]
    /\ nextTid = 1
    /\ ret = "none"
    /\ repos = [r \in StoreRepoIds |-> AbsentRow]
    /\ nextRepoId = 1
    /\ archives = {}
    /\ nextArchiveId = 1
    /\ file_hashes = [r \in StoreRepoIds |-> NoFiles]
    /\ mirror = [r \in StoreRepoIds |-> NoMirror]
    /\ upstream = [r \in StoreRepoIds |-> TreeA]
    /\ forge = [r \in StoreRepoIds |-> "active"]
    /\ now = 1

engineVars == <<tmVars, dbVars, envVars>>

StoreInit ==
    /\ calls = <<>>
    /\ LateIdle
    /\ UrlIdle
    /\ TsIdle
    /\ RsIdle
    /\ EngineIdle

StoreNext ==
    \/ \E u \in AddInputs : add_repo(u)
    \/ \E r \in StoreRepoIds, tree \in Trees, incr \in BOOLEAN : RecordArchive(r, tree, incr)
    \/ \E r \in StoreRepoIds, rm \in BOOLEAN : DeleteRepo(r, rm)
    \/ \E a \in archives : DeleteArchive(a)

StoreSpec == StoreInit /\ [][StoreNext]_vars

\* --------------------------------------------------- the URL functions alone
notUrlVars == <<calls, engineVars, tsVars, rsVars, lateVars>>

UrlInit ==
    /\ calls = <<>>
    /\ LateIdle
    /\ EngineIdle
    /\ TsIdle
    /\ RsIdle
    /\ url_in \in UrlInputs
    /\ url_out = url_in
    /\ url_prev = url_in
    /\ url_ok = "unknown"
    /\ url_n = 0

\* isValidGithubUrl(url_in) is called.
Validate ==
    /\ url_ok = "unknown"
    /\ url_ok' = IF isValidGithubUrl(url_in) THEN "valid" ELSE "invalid"
    /\ UNCHANGED <<url_in, url_out, url_prev, url_n>>
    /\ UNCHANGED notUrlVars

\* normalizeRepoUrl is applied to the result so far.
Normalize ==
    /\ url_n < MaxNormalize
    /\ url_prev' = url_out
    /\ url_out' = normalizeRepoUrl(url_out)
    /\ url_n' = url_n + 1
    /\ UNCHANGED <<url_in, url_ok>>
    /\ UNCHANGED notUrlVars

UrlNext == Validate \/ Normalize

UrlSpec == UrlInit /\ [][UrlNext]_vars

\* ------------------------------------------------------------- task-store
notTsVars == <<calls, engineVars, urlVars, rsVars, ss, bar, av, sy, rt, sse>>

\* The TaskProgress payloads the backend delivers.
TsUrls == {"https://github.com/o/r", "https://github.com/o/t"}
TsStages == {"cloning", "archiving"}
Payloads == [repo_url : TsUrls, stage : TsStages]

\* Map.prototype.has / get / delete on the entries of a Map.
MapHas(m, k) == \E i \in 1 .. Len(m) : m[i].key = k
MapGet(m, k) == m[CHOOSE i \in 1 .. Len(m) : m[i].key = k].value
MapDelete(m, k) == SelectSeq(m, LAMBDA e : e.key # k)

\* Variant of MapSet: the entry is added whether or not the key is there.
MapAppend(m, k, v) == Append(m, [key |-> k, value |-> v])

\* Map.prototype.set: the value of an existing key is replaced in place, a
\* new key is added at the end.
MapSet(m, k, v) ==
    IF MapHas(m, k)
    THEN [i \in 1 .. Len(m) |-> IF m[i].key = k THEN [key |-> k, value |-> v] ELSE m[i]]
    ELSE Append(m, [key |-> k, value |-> v])

TsInit ==
    /\ calls = <<>>
    /\ LateIdle
    /\ EngineIdle
    /\ UrlIdle
    /\ RsIdle
    /\ TsIdle

\* addProgress(progress): newTasks.set(progress.repo_url, progress)
addProgress(progress) ==
    /\ activeTasks' = MapSet(activeTasks, progress.repo_url, progress)
    /\ ts_last' = [op |-> "addProgress", hit |-> MapHas(activeTasks, progress.repo_url)]
    /\ UNCHANGED <<activityLog, logSeq>>
    /\ UNCHANGED notTsVars

\* removeTask(repoUrl): newTasks.delete(repoUrl)
removeTask(repoUrl) ==
    /\ activeTasks' = MapDelete(activeTasks, repoUrl)
    /\ ts_last' = [op |-> "removeTask", hit |-> MapHas(activeTasks, repoUrl)]
    /\ UNCHANGED <<activityLog, logSeq>>
    /\ UNCHANGED notTsVars

\* Array.prototype.slice(0, n)
slice0(a, n) == SubSeq(a, 1, IF Len(a) < n THEN Len(a) ELSE n)

\* Variant of addLogEntry: the log is not cut.
addLogEntryNoCap(entry) ==
    /\ logSeq <= MaxLogCalls
    /\ activityLog' = <<entry>> \o activityLog
    /\ logSeq' = logSeq + 1
    /\ ts_last' = [op |-> "addLogEntry", hit |-> FALSE]
    /\ UNCHANGED activeTasks
    /\ UNCHANGED notTsVars

\* addLogEntry(entry): [entry, ...state.activityLog].slice(0, MAX_LOG_ENTRIES)
addLogEntry(entry) ==
    /\ logSeq <= MaxLogCalls
    /\ activityLog' = slice0(<<entry>> \o activityLog, MAX_LOG_ENTRIES)
    /\ logSeq' = logSeq + 1
    /\ ts_last' = [op |-> "addLogEntry", hit |-> FALSE]
    /\ UNCHANGED activeTasks
    /\ UNCHANGED notTsVars

TsNext ==
    \/ \E progress \in Payloads : addProgress(progress) /\ UNCHANGED app
    \/ \E u \in TsUrls : removeTask(u) /\ UNCHANGED app
    \/ addLogEntry([id |-> logSeq]) /\ UNCHANGED app

TsSpec == TsInit /\ [][TsNext]_vars

\* ------------------------------------------------------------- repo-store
notRsVars == <<calls, engineVars, urlVars, tsVars, ss, bar, av, app, rt, sse>>

\* The Repository records the backend returns or announces.
UiRepoIds == 1 .. MaxUiIds
Repositories == [id : UiRepoIds, status : {"pending", "active"}]

\* What list_repos can answer: lists of records with distinct ids.
BackendLists ==
    {<<>>} \cup {<<a>> : a \in Repositories}
           \cup {<<a, b>> : a \in {x \in Repositories : x.id = 1},
                            b \in {x \in Repositories : x.id = 2}}

Settled(op, id, backend, outcome) ==
    [op |-> op, id |-> id, backend |-> backend, outcome |-> outcome]

RsInit ==
    /\ calls = <<>>
    /\ LateIdle
    /\ EngineIdle
    /\ UrlIdle
    /\ TsIdle
    /\ RsIdle

\* fetchRepos up to its await: set({ loading: true }), commands.listRepos(...)
FetchReposStart ==
    /\ rs_fetching < MaxInFlight
    /\ loading' = TRUE
    /\ rs_fetching' = rs_fetching + 1
    /\ UNCHANGED <<rs_repos, rs_deleting, rs_last>>
    /\ UNCHANGED notRsVars

\* fetchRepos, list_repos resolved: set({ repos, loading: false })
FetchReposResolve(list) ==
    /\ rs_fetching > 0
    /\ rs_repos' = list
    /\ loading' = FALSE
    /\ rs_fetching' = rs_fetching - 1
    /\ rs_last' = Settled("fetchRepos", 0, "resolved", "returned")
    /\ UNCHANGED rs_deleting
    /\ UNCHANGED notRsVars

\* Variant of FetchReposReject: the catch block does nothing.
FetchReposRejectEmptyCatch ==
    /\ rs_fetching > 0
    /\ rs_fetching' = rs_fetching - 1
    /\ rs_last' = Settled("fetchRepos", 0, "rejected", "returned")
    /\ UNCHANGED <<rs_repos, loading, rs_deleting>>
    /\ UNCHANGED notRsVars

\* fetchRepos, list_repos rejected: catch { set({ loading: false }) }
FetchReposReject ==
    /\ rs_fetching > 0
    /\ loading' = FALSE
    /\ rs_fetching' = rs_fetching - 1
    /\ rs_last' = Settled("fetchRepos", 0, "rejected", "returned")
    /\ UNCHANGED <<rs_repos, rs_deleting>>
    /\ UNCHANGED notRsVars

\* addRepo(url), add_repo resolved with repo: repos: [...state.repos, repo]
AddRepoResolve(repo) ==
    /\ Len(rs_repos) < MaxUiRepos
    /\ rs_repos' = Append(rs_repos, repo)
    /\ rs_last' = Settled("addRepo", repo.id, "resolved", "returned")
    /\ UNCHANGED <<loading, rs_fetching, rs_deleting>>
    /\ UNCHANGED notRsVars

\* addRepo(url), add_repo rejected: the rejection is the caller's.
AddRepoReject ==
    /\ rs_last' = Settled("addRepo", 0, "rejected", "threw")
    /\ UNCHANGED <<rs_repos, loading, rs_fetching, rs_deleting>>
    /\ UNCHANGED notRsVars

\* Array.prototype.filter((r) => r.id !== id)
WithoutId(list, id) == SelectSeq(list, LAMBDA r : r.id # id)

\* Variant of DeleteRepoStart: the entries are removed before the backend answers.
DeleteRepoStartOptimistic(id) ==
    /\ id \notin rs_deleting
    /\ rs_deleting' = rs_deleting \cup {id}
    /\ rs_repos' = WithoutId(rs_repos, id)
    /\ UNCHANGED <<loading, rs_fetching, rs_last>>
    /\ UNCHANGED notRsVars

\* deleteRepo(id, removeFiles) up to its await: commands.deleteRepo(id, removeFiles)
DeleteRepoStart(id) ==
    /\ id \notin rs_deleting
    /\ rs_deleting' = rs_deleting \cup {id}
    /\ UNCHANGED <<rs_repos, loading, rs_fetching, rs_last>>
    /\ UNCHANGED notRsVars

\* deleteRepo, delete_repo resolved: repos: state.repos.filter((r) => r.id !== id)
DeleteRepoResolve(id) ==
    /\ id \in rs_deleting
    /\ rs_deleting' = rs_deleting \ {id}
    /\ rs_repos' = WithoutId(rs_repos, id)
    /\ rs_last' = Settled("deleteRepo", id, "resolved", "returned")
    /\ UNCHANGED <<loading, rs_fetching>>
    /\ UNCHANGED notRsVars

\* deleteRepo, delete_repo rejected: nothing is set, the rejection is the caller's.
DeleteRepoReject(id) ==
    /\ id \in rs_deleting
    /\ rs_deleting' = rs_deleting \ {id}
    /\ rs_last' = Settled("deleteRepo", id, "rejected", "threw")
    /\ UNCHANGED <<rs_repos, loading, rs_fetching>>
    /\ UNCHANGED notRsVars

\* Variant of updateRepo: a record with an unknown id is added to the list.
updateRepoUpsert(repo) ==
    /\ rs_repos' = IF \E i \in 1 .. Len(rs_repos) : rs_repos[i].id = repo.id
                   THEN [i \in 1 .. Len(rs_repos) |->
                            IF rs_repos[i].id = repo.id THEN repo ELSE rs_repos[i]]
                   ELSE Append(rs_repos, repo)
    /\ rs_last' = Settled("updateRepo", repo.id, "none", "returned")
    /\ UNCHANGED <<loading, rs_fetching, rs_deleting>>
    /\ UNCHANGED notRsVars

\* updateRepo(repo): repos: state.repos.map((r) => (r.id === repo.id ? repo : r))
updateRepo(repo) ==
    /\ rs_repos' = [i \in 1 .. Len(rs_repos) |->
                       IF rs_repos[i].id = repo.id THEN repo ELSE rs_repos[i]]
    /\ rs_last' = Settled("updateRepo", repo.id, "none", "returned")
    /\ UNCHANGED <<loading, rs_fetching, rs_deleting>>
    /\ UNCHANGED notRsVars

RsNext ==
    \/ FetchReposStart /\ UNCHANGED sy
    \/ \E list \in BackendLists : FetchReposResolve(list) /\ UNCHANGED sy
    \/ FetchReposReject /\ UNCHANGED sy
    \/ \E repo \in Repositories : AddRepoResolve(repo) /\ UNCHANGED sy
    \/ AddRepoReject /\ UNCHANGED sy
    \/ \E id \in UiRepoIds : DeleteRepoStart(id) /\ UNCHANGED sy
    \/ \E id \in UiRepoIds : DeleteRepoResolve(id) /\ UNCHANGED sy
    \/ \E id \in UiRepoIds : DeleteRepoReject(id) /\ UNCHANGED sy
    \/ \E repo \in Repositories : updateRepo(repo) /\ UNCHANGED sy

RsSpec == RsInit /\ [][RsNext]_vars

\* ------------------------------------- repo-store and the backend's answers

\* A command sent to the backend: what it is, its argument, whether the
\* backend has run it, and what it answers.
Command(op, arg) ==
    [op |-> op, arg |-> arg, id |-> 0, state |-> "sent", list |-> <<>>,
     repo |-> [id |-> 0, status |-> "none"]]

RemoveAt(s, i) == SubSeq(s, 1, i - 1) \o SubSeq(s, i + 1, Len(s))

CommandsAt(op, state) ==
    {i \in 1 .. Len(sy.inflight) : sy.inflight[i].op = op /\ sy.inflight[i].state = state}

\* list_repos(status_filter): the rows of the table, those of the status when
\* one is given.
list_repos(table, status_filter) ==
    SelectSeq(table, LAMBDA r : status_filter = NoFilter \/ r.status = status_filter)

\* Values of the status dropdown (STATUS_OPTIONS): "All" and two of the five
\* statuses; the other three are picked and sent in the same way.
StatusOptions == {NoFilter, "pending", "active"}

\* A call of fetchRepos (DataTable and App call it on mount): the store part up
\* to the await, with the filter it read from the store sent along.
fetchRepos ==
    /\ FetchReposStart
    /\ sy' = [sy EXCEPT !.inflight = Append(@, Command("list_repos", sy.statusFilter))]

\* A status picked in the dropdown: setStatusFilter(opt.value), then
\* setTimeout(() => fetchRepos(), 0).
SelectStatus(s) ==
    /\ sy.timers < MaxTimers
    /\ sy' = [sy EXCEPT !.statusFilter = s, !.timers = @ + 1]
    /\ UNCHANGED rsVars
    /\ UNCHANGED notRsVars

\* The timeout callback runs: fetchRepos()
TimerFires ==
    /\ sy.timers > 0
    /\ FetchReposStart
    /\ sy' = [sy EXCEPT !.timers = @ - 1,
                        !.inflight = Append(@, Command("list_repos", sy.statusFilter))]

\* The backend runs a list_repos command.
ListReposRuns(i) ==
    /\ i \in CommandsAt("list_repos", "sent")
    /\ sy' = [sy EXCEPT !.inflight[i].state = "ok",
                        !.inflight[i].list = list_repos(sy.table, sy.inflight[i].arg)]
    /\ UNCHANGED rsVars
    /\ UNCHANGED notRsVars

\* The answer of a list_repos command reaches its fetchRepos call.
ListReposAnswers(i) ==
    /\ i \in CommandsAt("list_repos", "ok")
    /\ FetchReposResolve(sy.inflight[i].list)
    /\ sy' = [sy EXCEPT !.inflight = RemoveAt(@, i)]

\* Two repositories in the backend's table, one pending and one active.
FilterInit ==
    /\ calls = <<>>
    /\ EngineIdle
    /\ UrlIdle
    /\ TsIdle
    /\ RsIdle
    /\ ss = SsIdle
    /\ bar = BarIdle
    /\ av = AvIdle
    /\ app = AppIdle
    /\ rt = RtIdle
    /\ sse = SseIdle
    /\ sy = [SyIdle EXCEPT !.table = <<[id |-> 1, status |-> "pending"],
                                       [id |-> 2, status |-> "active"]>>,
                           !.nextId = 3]

FilterNext ==
    \/ fetchRepos
    \/ \E s \in StatusOptions : SelectStatus(s)
    \/ TimerFires
    \/ \E i \in 1 .. MaxInFlight : ListReposRuns(i)
    \/ \E i \in 1 .. MaxInFlight : ListReposAnswers(i)

FilterSpec == FilterInit /\ [][FilterNext]_vars

\* ---------------------------- repo-store with a backend table that changes

\* The row of a repository in the backend's table.
Row(table, id) == CHOOSE r \in {table[k] : k \in 1 .. Len(table)} : r.id = id

HasRow(table, id) == \E k \in 1 .. Len(table) : table[k].id = id

\* addRepo(url) up to its await: commands.addRepo(url)
AddRepoCall ==
    /\ Len(sy.inflight) < MaxCommands
    /\ sy' = [sy EXCEPT !.inflight = Append(@, Command("add_repo", "url"))]
    /\ UNCHANGED rsVars
    /\ UNCHANGED notRsVars

\* The backend runs add_repo: insert_repo gives the row the next id and
\* answers the row.
AddRepoRuns(i) ==
    /\ i \in CommandsAt("add_repo", "sent")
    /\ sy.nextId <= MaxUiIds
    /\ LET row == [id |-> sy.nextId, status |-> "pending"] IN
          sy' = [sy EXCEPT !.table = Append(@, row),
                           !.nextId = @ + 1,
                           !.inflight[i].state = "ok",
                           !.inflight[i].repo = row]
    /\ UNCHANGED rsVars
    /\ UNCHANGED notRsVars

\* The answer of add_repo reaches its addRepo call.
AddRepoAnswers(i) ==
    /\ i \in CommandsAt("add_repo", "ok")
    /\ AddRepoResolve(sy.inflight[i].repo)
    /\ sy' = [sy EXCEPT !.inflight = RemoveAt(@, i)]

\* A call of fetchRepos while the table changes.
FetchReposCall ==
    /\ Len(sy.inflight) < MaxCommands
    /\ fetchRepos

\* deleteRepo(id, removeFiles) on a row the table shows, up to its await.
DeleteRepoCall(id) ==
    /\ Len(sy.inflight) < MaxCommands
    /\ HasRow(rs_repos, id)
    /\ DeleteRepoStart(id)
    /\ sy' = [sy EXCEPT !.inflight = Append(@, [Command("delete_repo", "id") EXCEPT !.id = id])]

\* The backend runs delete_repo: the row leaves the table.
DeleteRepoRuns(i) ==
    /\ i \in CommandsAt("delete_repo", "sent")
    /\ sy' = [sy EXCEPT !.table = WithoutId(@, sy.inflight[i].id),
                        !.inflight[i].state = "ok"]
    /\ UNCHANGED rsVars
    /\ UNCHANGED notRsVars

\* The answer of delete_repo reaches its deleteRepo call.
DeleteRepoAnswers(i) ==
    /\ i \in CommandsAt("delete_repo", "ok")
    /\ DeleteRepoResolve(sy.inflight[i].id)
    /\ sy' = [sy EXCEPT !.inflight = RemoveAt(@, i)]

\* A task of the backend changes a row and emits "repo-updated" with it.
EmitRepoUpdated(id, status) ==
    /\ Len(sy.inflight) < MaxCommands
    /\ HasRow(sy.table, id)
    /\ Row(sy.table, id).status # status
    /\ LET row == [id |-> id, status |-> status] IN
          sy' = [sy EXCEPT !.table = [k \in 1 .. Len(@) |-> IF @[k].id = id THEN row ELSE @[k]],
                           !.inflight = Append(@, [Command("repo-updated", "event")
                                                     EXCEPT !.state = "ok", !.repo = row])]
    /\ UNCHANGED rsVars
    /\ UNCHANGED notRsVars

\* App: listen("repo-updated", (event) => updateRepo(event.payload))
OnRepoUpdated(i) ==
    /\ i \in CommandsAt("repo-updated", "ok")
    /\ updateRepo(sy.inflight[i].repo)
    /\ sy' = [sy EXCEPT !.inflight = RemoveAt(@, i)]

SyncInit ==
    /\ calls = <<>>
    /\ LateIdle
    /\ EngineIdle
    /\ UrlIdle
    /\ TsIdle
    /\ RsIdle

SyncNext ==
    \/ AddRepoCall
    \/ \E i \in 1 .. MaxCommands : AddRepoRuns(i)
    \/ \E i \in 1 .. MaxCommands : AddRepoAnswers(i)
    \/ FetchReposCall
    \/ \E i \in 1 .. MaxCommands : ListReposRuns(i)
    \/ \E i \in 1 .. MaxCommands : ListReposAnswers(i)
    \/ \E id \in UiRepoIds : DeleteRepoCall(id)
    \/ \E i \in 1 .. MaxCommands : DeleteRepoRuns(i)
    \/ \E i \in 1 .. MaxCommands : DeleteRepoAnswers(i)
    \/ \E id \in UiRepoIds, s \in {"pending", "active"} : EmitRepoUpdated(id, s)
    \/ \E i \in 1 .. MaxCommands : OnRepoUpdated(i)

SyncSpec == SyncInit /\ [][SyncNext]_vars

\* ------------------------------------ App: the backend's events, task-store

\* emit("task-progress", ...)
Emit(u, stage) == Append(app.events, [repo_url |-> u, stage |-> stage])

\* A task of the backend starts on a repository: emit {Cloning}.
TaskStarts(u) ==
    /\ app.stage[u] = "idle"
    /\ app.started < MaxStarted
    /\ Len(app.events) < MaxEvents
    /\ app' = [app EXCEPT !.stage[u] = "cloning", !.events = Emit(u, "cloning"),
                          !.started = @ + 1]
    /\ UNCHANGED tsVars
    /\ UNCHANGED notTsVars

\* The task reaches its next stage: emit {Archiving}.
TaskArchives(u) ==
    /\ app.stage[u] = "cloning"
    /\ Len(app.events) < MaxEvents
    /\ app' = [app EXCEPT !.stage[u] = "archiving", !.events = Emit(u, "archiving")]
    /\ UNCHANGED tsVars
    /\ UNCHANGED notTsVars

\* The task ends: emit {Done} or {Failed}, its last event.
TaskEnds(u, last) ==
    /\ app.stage[u] = "archiving"
    /\ Len(app.events) < MaxEvents
    /\ app' = [app EXCEPT !.stage[u] = "idle", !.events = Emit(u, last)]
    /\ UNCHANGED tsVars
    /\ UNCHANGED notTsVars

\* App: listen("task-progress", (event) => taskStore.addProgress(event.payload))
OnTaskProgress ==
    /\ app.events # <<>>
    /\ addProgress(Head(app.events))
    /\ app' = [app EXCEPT !.events = Tail(@)]

\* StatusBar: taskCount = activeTasks.size
taskCount == Len(activeTasks)

\* No task of the backend runs on u and no event about u is on its way.
Finished(u) ==
    /\ app.stage[u] = "idle"
    /\ \A k \in 1 .. Len(app.events) : app.events[k].repo_url # u

AppInit ==
    /\ calls = <<>>
    /\ LateIdle
    /\ EngineIdle
    /\ UrlIdle
    /\ RsIdle
    /\ TsIdle

AppNext ==
    \/ \E u \in TsUrls : TaskStarts(u)
    \/ \E u \in TsUrls : TaskArchives(u)
    \/ \E u \in TsUrls, last \in {"done", "failed"} : TaskEnds(u, last)
    \/ OnTaskProgress

\* The event loop runs every listener whose event has arrived, and a task of
\* the backend that has started goes on to its end.
AppFairness ==
    /\ WF_vars(OnTaskProgress)
    /\ \A u \in TsUrls : WF_vars(TaskArchives(u))
    /\ \A u \in TsUrls : WF_vars(\E last \in {"done", "failed"} : TaskEnds(u, last))

AppSpec == AppInit /\ [][AppNext]_vars /\ AppFairness

\* ------------------------------------------------------ formatRelativeTime
notRtVars == <<calls, engineVars, urlVars, tsVars, rsVars, ss, bar, av, sy, app, sse>>

\* now.getTime() - date.getTime(), in milliseconds, kept as whole seconds and
\* the milliseconds left over (the product is past 32-bit integers for long
\* times); past is FALSE when dateStr is after now.
Elapsed(past, seconds, millis) == [past |-> past, seconds |-> seconds, millis |-> millis]

Phrase(n, text) == [n |-> n, text |-> text]

formatRelativeTime(diff) ==
    LET seconds == diff.seconds           \* Math.floor(diffMs / 1000)
        minutes == seconds \div 60
        hours == minutes \div 60
        days == hours \div 24
        weeks == days \div 7
        months == days \div 30
        years == days \div 365
    IN  IF ~diff.past THEN Phrase(0, "just now")
        ELSE IF seconds < 60 THEN Phrase(0, "just now")
        ELSE IF minutes = 1 THEN Phrase(1, "minute ago")
        ELSE IF minutes < 60 THEN Phrase(minutes, "minutes ago")
        ELSE IF hours = 1 THEN Phrase(1, "hour ago")
        ELSE IF hours < 24 THEN Phrase(hours, "hours ago")
        ELSE IF days = 1 THEN Phrase(1, "day ago")
        ELSE IF days < 7 THEN Phrase(days, "days ago")
        ELSE IF weeks = 1 THEN Phrase(1, "week ago")
        ELSE IF weeks < 4 THEN Phrase(weeks, "weeks ago")
        ELSE IF months = 1 THEN Phrase(1, "month ago")
        ELSE IF months < 12 THEN Phrase(months, "months ago")
        ELSE IF years = 1 THEN Phrase(1, "year ago")
        ELSE Phrase(years, "years ago")

\* The times tried: after now, and before now by whole seconds, minutes,
\* hours and days, each with and without a fraction of a second.
RtTimes ==
    {Elapsed(FALSE, s, 1) : s \in 0 .. MaxRtSeconds}
    \cup {Elapsed(TRUE, s, ms) :
             s \in (0 .. MaxRtSeconds)
                   \cup {60 * m : m \in 1 .. MaxRtMinutes}
                   \cup {3600 * h : h \in 1 .. MaxRtHours}
                   \cup {86400 * d : d \in 1 .. MaxRtDays},
             ms \in {0, 999}}

RtInit ==
    /\ calls = <<>>
    /\ EngineIdle
    /\ UrlIdle
    /\ TsIdle
    /\ RsIdle
    /\ ss = SsIdle
    /\ bar = BarIdle
    /\ av = AvIdle
    /\ sy = SyIdle
    /\ app = AppIdle
    /\ sse = SseIdle
    /\ rt \in {[diff |-> d, out |-> NoPhrase] : d \in RtTimes}

\* formatRelativeTime(dateStr) is called and returns.
Format ==
    /\ rt.out = NoPhrase
    /\ rt' = [rt EXCEPT !.out = formatRelativeTime(rt.diff)]
    /\ UNCHANGED notRtVars

RtNext == Format

RtSpec == RtInit /\ [][RtNext]_vars

\* ------------------------------------- legacy web front end: log streaming
notSseVars == <<calls, engineVars, urlVars, tsVars, rsVars, ss, bar, av, sy, app, rt>>

\* The earliest of the pending timeouts.
NextDue(timers) ==
    CHOOSE d \in {timers[k].left : k \in 1 .. Len(timers)} :
        \A k \in 1 .. Len(timers) : d <= timers[k].left

\* setupLogStreaming(): if (eventSource) eventSource.close();
\* eventSource = new EventSource('/api/logs/stream')
setupLogStreaming(s) ==
    [s EXCEPT !.open = (IF s.eventSource # 0 THEN @ \ {s.eventSource} ELSE @) \cup {s.nextEs},
              !.eventSource = s.nextEs,
              !.nextEs = @ + 1]

\* initializeApp(), on DOMContentLoaded: setupLogStreaming()
initializeApp ==
    /\ sse.nextEs = 1
    /\ sse' = setupLogStreaming(sse)
    /\ UNCHANGED notSseVars

\* eventSource.onmessage: addLogEntry(data.log)
OnMessage(es) ==
    /\ es \in sse.open
    /\ sse' = [sse EXCEPT !.reruns = 0]
    /\ UNCHANGED notSseVars

\* eventSource.onerror: setTimeout(setupLogStreaming, 3000). After the error
\* the browser either keeps the EventSource and retries, or has closed it.
OnError(es, closed) ==
    /\ es \in sse.open
    /\ Len(sse.timers) < MaxSseTimers
    /\ sse' = [sse EXCEPT !.timers = Append(@, [left |-> ReconnectTimeout, age |-> 0]),
                          !.open = IF closed THEN @ \ {es} ELSE @]
    /\ UNCHANGED notSseVars

\* Time passes, at most up to the next timeout.
Elapse ==
    /\ sse.timers # <<>>
    /\ NextDue(sse.timers) > 0
    /\ LET d == IF NextDue(sse.timers) < TickMs THEN NextDue(sse.timers) ELSE TickMs IN
          sse' = [sse EXCEPT !.timers = [k \in 1 .. Len(@) |->
                                            [left |-> @[k].left - d, age |-> @[k].age + d]]]
    /\ UNCHANGED notSseVars

\* A timeout is due: setupLogStreaming() runs again.
Reconnect(k) ==
    /\ k \in 1 .. Len(sse.timers)
    /\ sse.timers[k].left = 0
    /\ sse.nextEs <= MaxSources
    /\ sse' = [setupLogStreaming(sse) EXCEPT !.timers = RemoveAt(@, k),
                                             !.reruns = @ + 1,
                                             !.delays = @ \cup {sse.timers[k].age}]
    /\ UNCHANGED notSseVars

SseInit ==
    /\ calls = <<>>
    /\ LateIdle
    /\ EngineIdle
    /\ UrlIdle
    /\ TsIdle
    /\ RsIdle

SseNext ==
    \/ initializeApp
    \/ \E es \in 1 .. MaxSources : OnMessage(es)
    \/ \E es \in 1 .. MaxSources, closed \in BOOLEAN : OnError(es, closed)
    \/ Elapse
    \/ \E k \in 1 .. MaxSseTimers : Reconnect(k)

SseSpec == SseInit /\ [][SseNext]_vars

\* --------------------------------------------------------- settings-store
baseVars == <<calls, engineVars, urlVars, tsVars, rsVars>>
notSsVars == <<baseVars, bar, av, sy, app, rt, sse>>

\* The AppSettings the backend returns and the dialog submits.
Settings ==
    {[defaultSettings EXCEPT !.max_concurrent_tasks = m, !.auto_check_interval_minutes = a] :
        m \in {4, 8}, a \in {NULL, 60}}

SsSettled(op, arg, backend, outcome) ==
    [op |-> op, arg |-> arg, backend |-> backend, outcome |-> outcome]

SsInit ==
    /\ calls = <<>>
    /\ EngineIdle
    /\ UrlIdle
    /\ TsIdle
    /\ RsIdle
    /\ LateIdle

\* fetchSettings up to its await: set({ loading: true }), commands.getSettings()
FetchSettingsStart ==
    /\ ss.fetching < MaxInFlight
    /\ ss' = [ss EXCEPT !.loading = TRUE, !.fetching = @ + 1]
    /\ UNCHANGED notSsVars

\* fetchSettings, get_settings resolved: set({ settings, loading: false })
FetchSettingsResolve(s) ==
    /\ ss.fetching > 0
    /\ ss' = [ss EXCEPT !.settings = s, !.loading = FALSE, !.fetching = @ - 1,
                        !.last = SsSettled("fetchSettings", s, "resolved", "returned")]
    /\ UNCHANGED notSsVars

\* fetchSettings, get_settings rejected: catch { set({ loading: false }) }
FetchSettingsReject ==
    /\ ss.fetching > 0
    /\ ss' = [ss EXCEPT !.loading = FALSE, !.fetching = @ - 1,
                        !.last = SsSettled("fetchSettings", ss.settings, "rejected", "returned")]
    /\ UNCHANGED notSsVars

\* Variant of SaveSettingsStart: the store takes the settings before the backend answers.
SaveSettingsStartOptimistic(s) ==
    /\ s \notin ss.saving
    /\ Cardinality(ss.saving) < MaxInFlight
    /\ ss' = [ss EXCEPT !.saving = @ \cup {s}, !.settings = s]
    /\ UNCHANGED notSsVars

\* saveSettings(s, token) up to its await: commands.saveSettings(settings, token)
SaveSettingsStart(s) ==
    /\ s \notin ss.saving
    /\ Cardinality(ss.saving) < MaxInFlight
    /\ ss' = [ss EXCEPT !.saving = @ \cup {s}]
    /\ UNCHANGED notSsVars

\* saveSettings, save_settings resolved: set({ settings })
SaveSettingsResolve(s) ==
    /\ s \in ss.saving
    /\ ss' = [ss EXCEPT !.saving = @ \ {s}, !.settings = s,
                        !.last = SsSettled("saveSettings", s, "resolved", "returned")]
    /\ UNCHANGED notSsVars

\* saveSettings, save_settings rejected: nothing is set, the rejection is the
\* caller's (handleSave catches it and shows the failure toast).
SaveSettingsReject(s) ==
    /\ s \in ss.saving
    /\ ss' = [ss EXCEPT !.saving = @ \ {s},
                        !.last = SsSettled("saveSettings", s, "rejected", "threw")]
    /\ UNCHANGED notSsVars

SsNext ==
    \/ FetchSettingsStart
    \/ \E s \in Settings : FetchSettingsResolve(s)
    \/ FetchSettingsReject
    \/ \E s \in Settings : SaveSettingsStart(s)
    \/ \E s \in Settings : SaveSettingsResolve(s)
    \/ \E s \in Settings : SaveSettingsReject(s)

SsSpec == SsInit /\ [][SsNext]_vars

\* ------------------------------------------------------------- AddRepoBar
notBarVars == <<baseVars, ss, av, sy, app, rt, sse>>

\* What the user types into the input.
BarInputs ==
    {<<>>, Space} \cup
    {b \o sc \o h \o pth \o tl \o b :
        b \in UrlBlanks, sc \in {<<>>, Https}, h \in {GithubCom, GitlabCom},
        pth \in {<<>>, <<"/", "o">>, <<"/", "o", "/", "r">>}, tl \in {<<>>, DotGit}}

BarKeys == {"Enter", "a"}

BarInit ==
    /\ calls = <<>>
    /\ EngineIdle
    /\ UrlIdle
    /\ TsIdle
    /\ RsIdle
    /\ LateIdle

\* onChange of the input (disabled while loading): setUrl(e.target.value)
setUrl(text) ==
    /\ ~bar.loading
    /\ text # bar.url
    /\ bar' = [bar EXCEPT !.url = text, !.last = BarDid("change", "none")]
    /\ UNCHANGED notBarVars

\* Variant of handleSubmit: the text goes to addRepo without the validity check.
handleSubmitNoCheck(event) ==
    LET trimmed == trim(bar.url) IN
    /\ IF trimmed = <<>>
       THEN bar' = [bar EXCEPT !.last = BarDid(event, "empty")]
       ELSE /\ Len(bar.calls) < MaxBarCalls
            /\ bar' = [bar EXCEPT !.loading = TRUE, !.calls = Append(@, trimmed),
                                  !.last = BarDid(event, "called")]
    /\ UNCHANGED notBarVars

\* handleSubmit up to its await: trim, return when empty, toast and return
\* when isValidGithubUrl says no, else setLoading(true) and addRepo(trimmed).
handleSubmit(event) ==
    LET trimmed == trim(bar.url) IN
    /\ IF trimmed = <<>>
       THEN bar' = [bar EXCEPT !.last = BarDid(event, "empty")]
       ELSE IF ~isValidGithubUrl(trimmed)
       THEN bar' = [bar EXCEPT !.last = BarDid(event, "invalid")]
       ELSE /\ Len(bar.calls) < MaxBarCalls
            /\ bar' = [bar EXCEPT !.loading = TRUE, !.calls = Append(@, trimmed),
                                  !.last = BarDid(event, "called")]
    /\ UNCHANGED notBarVars

\* onClick of the Add button, which is disabled while loading or when the
\* trimmed text is empty.
ClickAdd ==
    /\ ~bar.loading
    /\ trim(bar.url) # <<>>
    /\ handleSubmit("click")

\* handleKeyDown on the input (disabled while loading): Enter submits, any
\* other key does nothing.
handleKeyDown(key) ==
    /\ ~bar.loading
    /\ IF key = "Enter"
       THEN handleSubmit("enter")
       ELSE /\ bar' = [bar EXCEPT !.last = BarDid("key", "none")]
            /\ UNCHANGED notBarVars

\* handleSubmit, addRepo resolved: toast, setUrl(""), finally setLoading(false)
BarAddResolve ==
    /\ bar.loading
    /\ bar' = [bar EXCEPT !.url = <<>>, !.loading = FALSE, !.last = BarDid("settled", "added")]
    /\ UNCHANGED notBarVars

\* handleSubmit, addRepo rejected: toast, finally setLoading(false)
BarAddReject ==
    /\ bar.loading
    /\ bar' = [bar EXCEPT !.loading = FALSE, !.last = BarDid("settled", "failed")]
    /\ UNCHANGED notBarVars

BarNext ==
    \/ \E text \in BarInputs : setUrl(text)
    \/ ClickAdd
    \/ \E key \in BarKeys : handleKeyDown(key)
    \/ BarAddResolve
    \/ BarAddReject

BarSpec == BarInit /\ [][BarNext]_vars

\* ----------------------------------------------------------- ArchiveViewer
notAvVars == <<baseVars, ss, bar, sy, app, rt, sse>>

AvInit ==
    /\ calls = <<>>
    /\ EngineIdle
    /\ UrlIdle
    /\ TsIdle
    /\ RsIdle
    /\ LateIdle

\* The dialog opens: fetchArchives up to its await, setLoading(true) and
\* commands.listArchives(repo.id).
fetchArchives ==
    /\ ~av.loading
    /\ av' = [av EXCEPT !.loading = TRUE, !.last = AvPress("open", NULL)]
    /\ UNCHANGED notAvVars

\* fetchArchives, list_archives resolved: setArchives(data), setLoading(false)
fetchArchivesResolve(data) ==
    /\ av.loading
    /\ av' = [av EXCEPT !.archives = data, !.loading = FALSE,
                        !.last = AvPress("loaded", NULL)]
    /\ UNCHANGED notAvVars

\* fetchArchives, list_archives rejected: toast, setLoading(false)
fetchArchivesReject ==
    /\ av.loading
    /\ av' = [av EXCEPT !.loading = FALSE, !.last = AvPress("load failed", NULL)]
    /\ UNCHANGED notAvVars

\* The row of archive id is on screen: the table is shown when not loading.
RowShown(id) == ~av.loading /\ id \in av.archives

\* Variant of PressDelete: the Delete button calls deleteArchive at once.
PressDeleteNoConfirm(id) ==
    /\ RowShown(id)
    /\ av.deleteConfirmId # id
    /\ av.deleting[id] < MaxInFlight
    /\ av' = [av EXCEPT !.deleting[id] = @ + 1, !.last = AvPress("delete", id)]
    /\ UNCHANGED notAvVars

\* The Delete button of a row that shows it: setDeleteConfirmId(archive.id)
PressDelete(id) ==
    /\ RowShown(id)
    /\ av.deleteConfirmId # id
    /\ av' = [av EXCEPT !.deleteConfirmId = id, !.last = AvPress("delete", id)]
    /\ UNCHANGED notAvVars

\* The Cancel button of the row that awaits confirmation: setDeleteConfirmId(null)
PressCancel(id) ==
    /\ RowShown(id)
    /\ av.deleteConfirmId = id
    /\ av' = [av EXCEPT !.deleteConfirmId = NULL, !.last = AvPress("cancel", id)]
    /\ UNCHANGED notAvVars

\* The Confirm button of the row that awaits confirmation: handleDelete up to
\* its await, commands.deleteArchive(archiveId).
PressConfirm(id) ==
    /\ RowShown(id)
    /\ av.deleteConfirmId = id
    /\ av.deleting[id] < MaxInFlight
    /\ av' = [av EXCEPT !.deleting[id] = @ + 1, !.last = AvPress("confirm", id)]
    /\ UNCHANGED notAvVars

\* handleDelete, delete_archive resolved: the row is filtered out, toast,
\* setDeleteConfirmId(null).
handleDeleteResolve(id) ==
    /\ av.deleting[id] > 0
    /\ av' = [av EXCEPT !.deleting[id] = @ - 1, !.archives = @ \ {id},
                        !.deleteConfirmId = NULL, !.last = AvPress("deleted", id)]
    /\ UNCHANGED notAvVars

\* handleDelete, delete_archive rejected: toast, setDeleteConfirmId(null).
handleDeleteReject(id) ==
    /\ av.deleting[id] > 0
    /\ av' = [av EXCEPT !.deleting[id] = @ - 1, !.deleteConfirmId = NULL,
                        !.last = AvPress("delete failed", id)]
    /\ UNCHANGED notAvVars

AvNext ==
    \/ fetchArchives
    \/ \E data \in SUBSET AvIds : fetchArchivesResolve(data)
    \/ fetchArchivesReject
    \/ \E id \in AvIds : PressDelete(id)
    \/ \E id \in AvIds : PressCancel(id)
    \/ \E id \in AvIds : PressConfirm(id)
    \/ \E id \in AvIds : handleDeleteResolve(id)
    \/ \E id \in AvIds : handleDeleteReject(id)

AvSpec == AvInit /\ [][AvNext]_vars

\* ------------------------------------------------------------- properties

RunningStages == {"cloning", "fetching", "pulling", "hashing", "packing"}

\* The tasks whose handler is at work on its Repository.
Working == {t \in TaskIds : tasks[t].pc \in RunningStages \cup {"commit"}}

RowsOf(as, r) == {a \in as : a.repo_id = r}

\* C1: no two tasks that are running on a worker at the same time share an
\* identity key, whatever the interleaving of enqueue, cancel, cancel_all,
\* worker start and task completion.
C1_NoSharedIdentity ==
    \A t1, t2 \in Working : t1 # t2 => tasks[t1].key # tasks[t2].key

\* C2: the tasks running at the same time, each holding one permit, are never
\* more than the semaphore size N, however many tasks are queued.
C2_AtMostNRunning ==
    /\ Cardinality(Running) <= N
    /\ permits + Cardinality(Running) = N

\* C2 witness: N tasks run while a further received task waits for a permit.
C2_Witness == Cardinality(Running) = N /\ held # 0

\* C3: an enqueue whose identity key is registered returns AlreadyInProgress
\* and leaves the channel, the received task and the active set as they were,
\* so no second task of that identity reaches the worker.
C3_DuplicateRefused ==
    [][\A k \in Keys :
          (active_tasks[k] # 0 /\ (Enqueue("ensure", k) \/ Enqueue("reconcile", k)))
          => /\ ret' = "AlreadyInProgress"
             /\ queue' = queue
             /\ held' = held
             /\ tasks' = tasks
             /\ active_tasks' = active_tasks]_vars

\* C3 witness: an enqueue was refused while the first task of that identity is
\* the only one queued or running.
C3_Witness ==
    /\ ret = "AlreadyInProgress"
    /\ \E k \in Keys :
          /\ active_tasks[k] # 0
          /\ Cardinality({t \in TaskIds : tasks[t].key = k /\ tasks[t].pc \notin {"none", "over"}}) = 1

\* C4: every step shows the snapshot's Archive row and the FileHash set of
\* that snapshot together or not at all: a new snapshot row comes with the
\* FileHash set replaced by the committing task's digests, the FileHash set of
\* a Repository that stays changes only with such a row, and a failed commit
\* changes neither table.
C4_AtomicCommit ==
    [][/\ \A r \in RepoIds :
             LET new == {a \in RowsOf(archives', r) \ archives : a.file_count > 0} IN
             /\ new # {} =>
                   /\ Cardinality(new) = 1
                   /\ \E t \in TaskIds : /\ At(t, "ensure", "commit")
                                         /\ tasks[t].key = r
                                         /\ tasks'[t].stage = "Done"
                                         /\ file_hashes'[r] = tasks[t].curr
             /\ (file_hashes'[r] # file_hashes[r] /\ repos'[r].status # "none") => new # {}
       /\ \A t \in TaskIds :
             (At(t, "ensure", "commit") /\ tasks'[t].stage = "Failed")
             => (archives' = archives /\ file_hashes' = file_hashes)]_vars

\* C4 witness: a committed snapshot, its row and its digest set both in the store.
C4_Witness ==
    \E a \in archives : a.file_count > 0 /\ file_hashes[a.repo_id] # NoFiles

\* C5: the commit of a successful EnsureMirrored run adds exactly one Archive
\* row, for its Repository, keeps every other row, and leaves the FileHash map
\* of the Repository equal to the digests hashed in that run, path by path.
C5_CommitAddsOneRow ==
    [][\A t \in TaskIds :
          (At(t, "ensure", "commit") /\ tasks'[t].pc = "over" /\ tasks'[t].stage = "Done")
          => LET r == tasks[t].key IN
             /\ archives \subseteq archives'
             /\ Cardinality(archives') = Cardinality(archives) + 1
             /\ Cardinality(RowsOf(archives', r)) = Cardinality(RowsOf(archives, r)) + 1
             /\ \E tree \in Trees : tasks[t].curr = hash_directory(tree)
             /\ \A p \in Paths : file_hashes'[r][p] = tasks[t].curr[p]]_vars

\* C5 witness: a run that ended Done after an incremental snapshot of its Repository.
C5_Witness ==
    \E t \in TaskIds :
        /\ tasks[t].pc = "over" /\ tasks[t].stage = "Done" /\ tasks[t].kind = "ensure"
        /\ \E a \in RowsOf(archives, tasks[t].key) : a.incremental
        /\ file_hashes[tasks[t].key] = hash_directory(TreeB)

\* C6: every incremental Archive row has an Archive row of the same Repository
\* that was created before it.
C6_IncrementalHasPredecessor ==
    \A a \in archives :
        a.incremental => \E b \in RowsOf(archives, a.repo_id) : b.id < a.id

\* C7: a Repository in status pending has last_cloned = NULL.
C7_PendingNeverCloned ==
    \A r \in RepoIds : repos[r].status = "pending" => repos[r].last_cloned = NULL

C9_ReconcileNotFound ==
    [][\A t \in TaskIds, F \in SUBSET RepoIds :
          Reconcile(t, F)
          => \A r \in RepoIds :
                (Exists(r) /\ r \notin F /\ forge[r] = "not_found")
                => /\ repos'[r].status = "deleted"
                   /\ repos'[r].last_checked = now
                   /\ repos'[r].local_path = repos[r].local_path
                   /\ mirror'[r] = mirror[r]
                   /\ archives' = archives
                   /\ file_hashes' = file_hashes]_vars

\* C9 witness: a reconciled Repository is deleted upstream, its mirror and an
\* Archive row still there.
C9_Witness ==
    \E r \in RepoIds :
        /\ repos[r].status = "deleted"
        /\ repos[r].last_checked # NULL
        /\ forge[r] = "not_found"
        /\ mirror[r] # NoMirror
        /\ RowsOf(archives, r) # {}

C11_OneRecordPerCanonicalUrl ==
    /\ [](\A r1, r2 \in StoreRepoIds :
             (Exists(r1) /\ Exists(r2) /\ r1 # r2) => repos[r1].url # repos[r2].url)
    /\ [][\A u \in AddInputs :
             (/\ calls' # calls
              /\ calls'[Len(calls')].url = u
              /\ \E r \in StoreRepoIds : Exists(r) /\ repos[r].url = normalizeRepoUrl(u)
              /\ add_repo(u))
             => /\ calls'[Len(calls')] = [url |-> u, ret |-> "DuplicateRepo"]
                /\ repos' = repos
                /\ nextRepoId' = nextRepoId]_vars

\* C11 witness: two different strings with one canonical form were added, the
\* first accepted, the second refused, and one row is stored.
C11_Witness ==
    /\ Len(calls) = 2
    /\ calls[1].ret = "ok"
    /\ calls[2].ret = "DuplicateRepo"
    /\ calls[1].url # calls[2].url
    /\ normalizeRepoUrl(calls[1].url) = normalizeRepoUrl(calls[2].url)
    /\ Cardinality({r \in StoreRepoIds : Exists(r)}) = 1

\* C12: delete_repo(R) removes the Archive rows and the FileHash rows of R
\* and leaves the row, the Archive rows and the FileHash rows of every other
\* Repository as they were; delete_archive removes its row and no other row.
C12_DeleteFrame ==
    [][/\ \A r \in StoreRepoIds, rm \in BOOLEAN :
             DeleteRepo(r, rm)
             => /\ archives' = archives \ RowsOf(archives, r)
                /\ file_hashes'[r] = NoFiles
                /\ \A o \in StoreRepoIds \ {r} :
                      /\ repos'[o] = repos[o]
                      /\ file_hashes'[o] = file_hashes[o]
                      /\ RowsOf(archives', o) = RowsOf(archives, o)
       /\ \A a \in archives :
             DeleteArchive(a)
             => /\ archives' = archives \ {a}
                /\ repos' = repos
                /\ file_hashes' = file_hashes]_vars

\* C12 witness: a Repository that had been added is gone with its rows, and
\* the other one still has its Archive row and its FileHash rows.
C12_Witness ==
    \E r, o \in StoreRepoIds :
        /\ r # o
        /\ r < nextRepoId
        /\ ~Exists(r)
        /\ Exists(o)
        /\ nextArchiveId = MaxStoreArchives + 1
        /\ Cardinality(archives) = 1
        /\ RowsOf(archives, o) # {}
        /\ file_hashes[o] # NoFiles

\* The form https://github.com/owner/repo: https scheme, the host, two
\* non-empty segments, all lowercase, no trailing slash, no .git suffix.
CanonicalForm(s) ==
    /\ StartsWith(s, Https \o GithubCom \o Slash)
    /\ LET pieces == Split(DropFirst(s, Len(Https \o GithubCom \o Slash))) IN
       /\ Len(pieces) = 2
       /\ pieces[1] # <<>>
       /\ pieces[2] # <<>>
    /\ toLowerCase(s) = s
    /\ ~EndsWith(s, DotGit)

\* C13: for a string that isValidGithubUrl accepts, normalizing the
\* normalized string gives the normalized string again.
C13_NormalizeIdempotent ==
    (url_ok = "valid" /\ url_n = 2) => url_out = url_prev

\* C14: a string that isValidGithubUrl accepts has exactly two non-empty
\* path segments after the github.com host.
C14_ExactlyTwoSegments ==
    url_ok = "valid" => Len(Segments(AfterHost(trim(url_in)))) = 2

\* C15: for a string that isValidGithubUrl accepts, normalizeRepoUrl returns
\* a string of the form https://github.com/owner/repo.
C15_NormalizedForm ==
    (url_ok = "valid" /\ url_n = 1) => CanonicalForm(url_out)

\* C16: the activity log never holds more than 100 entries and is ordered
\* newest first; addLogEntry puts its entry at index 0, keeps the older
\* entries in their order, and drops only the oldest when the log is full.
C16_LogCappedNewestFirst ==
    /\ [](/\ Len(activityLog) <= MAX_LOG_ENTRIES
          /\ \A i, j \in 1 .. Len(activityLog) :
                i < j => activityLog[i].id > activityLog[j].id)
    /\ [][addLogEntry([id |-> logSeq])
          => /\ activityLog'[1] = [id |-> logSeq]
             /\ Len(activityLog') = IF Len(activityLog) < MAX_LOG_ENTRIES
                                    THEN Len(activityLog) + 1 ELSE MAX_LOG_ENTRIES
             /\ \A i \in 2 .. Len(activityLog') : activityLog'[i] = activityLog[i - 1]]_vars

\* C16 witness: the log is full and its oldest entries have been dropped.
C16_Witness ==
    /\ Len(activityLog) = MAX_LOG_ENTRIES
    /\ activityLog[1].id = MAX_LOG_ENTRIES + 2
    /\ activityLog[MAX_LOG_ENTRIES].id = 3

\* C17: activeTasks has at most one entry per repo_url; addProgress makes the
\* entry of the payload's URL equal to the payload and leaves the entries of
\* the other URLs as they were.
C17_LatestProgressPerUrl ==
    /\ [](\A i, j \in 1 .. Len(activeTasks) :
             i # j => activeTasks[i].key # activeTasks[j].key)
    /\ [][\A progress \in Payloads :
             addProgress(progress)
             => /\ MapHas(activeTasks', progress.repo_url)
                /\ MapGet(activeTasks', progress.repo_url) = progress
                /\ \A u \in TsUrls \ {progress.repo_url} :
                      /\ MapHas(activeTasks', u) = MapHas(activeTasks, u)
                      /\ MapHas(activeTasks, u) => MapGet(activeTasks', u) = MapGet(activeTasks, u)]_vars

\* C17 witness: a payload replaced the entry of its URL while the other URL
\* has an entry with another stage.
C17_Witness ==
    /\ ts_last = [op |-> "addProgress", hit |-> TRUE]
    /\ Len(activeTasks) = 2
    /\ activeTasks[1].value.stage # activeTasks[2].value.stage

\* C18: a fetchRepos call that settles leaves loading false; when list_repos
\* rejected, the settling step leaves repos as it was and the call returns
\* to its caller without an error.
C18_FetchSettles ==
    [][/\ (FetchReposReject \/ \E list \in BackendLists : FetchReposResolve(list))
          => loading' = FALSE
       /\ FetchReposReject
          => /\ rs_repos' = rs_repos
             /\ rs_last' = Settled("fetchRepos", 0, "rejected", "returned")]_vars

\* C18 witness: list_repos rejected while the store held two repositories.
C18_Witness ==
    /\ rs_last = Settled("fetchRepos", 0, "rejected", "returned")
    /\ Len(rs_repos) = 2
    /\ ~loading

\* C19: updateRepo(repo) puts repo in the place of every entry with its id and
\* leaves the other entries, the order and the length as they were; with no
\* entry of that id the list does not change.
C19_UpdateInPlace ==
    [][\A repo \in Repositories :
          updateRepo(repo)
          => /\ Len(rs_repos') = Len(rs_repos)
             /\ \A i \in 1 .. Len(rs_repos) :
                   rs_repos'[i] = IF rs_repos[i].id = repo.id THEN repo ELSE rs_repos[i]
             /\ (\A i \in 1 .. Len(rs_repos) : rs_repos[i].id # repo.id)
                => rs_repos' = rs_repos]_vars

\* C19 witness: an update arrived for one of two listed repositories.
C19_Witness ==
    /\ rs_last.op = "updateRepo"
    /\ Len(rs_repos) = 2
    /\ rs_repos[1].id # rs_repos[2].id
    /\ rs_repos[2].id = rs_last.id
    /\ rs_repos[2].status = "active"

\* C20: deleteRepo changes repos only when delete_repo has resolved, and then
\* removes the entries with its id and no other; when delete_repo rejects,
\* repos is unchanged and the caller gets the rejection.
C20_DeleteAfterBackend ==
    [][\A id \in UiRepoIds :
          /\ DeleteRepoStart(id) => rs_repos' = rs_repos
          /\ DeleteRepoResolve(id)
             => /\ \A i \in 1 .. Len(rs_repos') : rs_repos'[i].id # id
                /\ rs_repos' = WithoutId(rs_repos, id)
                /\ Len(rs_repos') =
                      Cardinality({i \in 1 .. Len(rs_repos) : rs_repos[i].id # id})
          /\ DeleteRepoReject(id)
             => /\ rs_repos' = rs_repos
                /\ rs_last' = Settled("deleteRepo", id, "rejected", "threw")]_vars

\* C20 witness: delete_repo rejected and the repository is still listed.
C20_Witness ==
    /\ rs_last.op = "deleteRepo"
    /\ rs_last.backend = "rejected"
    /\ rs_last.outcome = "threw"
    /\ Len(rs_repos) = 2
    /\ \E i \in 1 .. Len(rs_repos) : rs_repos[i].id = rs_last.id


\* C21: saveSettings(s, token) leaves the store's settings alone until
\* save_settings has answered; when it resolved, settings becomes s; when it
\* rejected, settings is unchanged and the caller gets the rejection.
C21_SaveAfterBackend ==
    [][\A s \in Settings :
          /\ (s \notin ss.saving /\ s \in ss'.saving) => ss'.settings = ss.settings
          /\ (s \in ss.saving /\ s \notin ss'.saving)
             => \/ /\ ss'.last = SsSettled("saveSettings", s, "resolved", "returned")
                   /\ ss'.settings = s
                \/ /\ ss'.last = SsSettled("saveSettings", s, "rejected", "threw")
                   /\ ss'.settings = ss.settings]_vars

\* C21 witness: save_settings rejected for settings that differ from the
\* store's, which still holds what an earlier save put there.
C21_Witness ==
    /\ ss.last.op = "saveSettings"
    /\ ss.last.backend = "rejected"
    /\ ss.last.outcome = "threw"
    /\ ss.last.arg # ss.settings
    /\ ss.settings # defaultSettings


\* C22: a submit of the AddRepoBar, by the button or by the Enter key, calls
\* addRepo exactly when the trimmed text is not empty and isValidGithubUrl
\* accepts it, and then with the trimmed text; no other event calls addRepo,
\* and no empty or invalid string is ever given to addRepo.
C22_SubmitValidated ==
    /\ [](\A i \in 1 .. Len(bar.calls) :
             /\ bar.calls[i] # <<>>
             /\ bar.calls[i] = trim(bar.calls[i])
             /\ isValidGithubUrl(bar.calls[i]))
    /\ [][IF bar'.last.event \in {"click", "enter"}
          THEN IF trim(bar.url) # <<>> /\ isValidGithubUrl(trim(bar.url))
               THEN bar'.calls = Append(bar.calls, trim(bar.url))
               ELSE bar'.calls = bar.calls
          ELSE bar'.calls = bar.calls]_vars

\* C22 witness: a text with blanks around a valid URL was submitted by the
\* Enter key and addRepo got the trimmed text.
C22_Witness ==
    /\ bar.last = BarDid("enter", "called")
    /\ Len(bar.calls) = 1
    /\ bar.calls[1] # bar.url
    /\ bar.calls[1] = trim(bar.url)


\* C23: deleteArchive(id) is invoked only by Confirm on the row of id while
\* id is the archive awaiting confirmation, and id comes to await confirmation
\* only by Delete on its row; Cancel ends the confirmation and invokes
\* nothing; at most one row awaits confirmation.
C23_DeleteNeedsConfirm ==
    /\ [](Cardinality({id \in av.archives : av.deleteConfirmId = id}) <= 1)
    /\ [][/\ \A id \in AvIds :
                av'.deleting[id] > av.deleting[id]
                => /\ av.deleteConfirmId = id
                   /\ id \in av.archives
                   /\ av'.last = AvPress("confirm", id)
          /\ (av'.deleteConfirmId # av.deleteConfirmId /\ av'.deleteConfirmId # NULL)
             => av'.last = AvPress("delete", av'.deleteConfirmId)
          /\ \A id \in AvIds :
                PressCancel(id) => /\ av'.deleteConfirmId = NULL
                                   /\ av'.deleting = av.deleting]_vars

\* C23 witness: Delete and then Confirm were pressed on the second of the
\* listed archives, whose delete_archive call is now pending.
C23_Witness ==
    /\ av.last = AvPress("confirm", 2)
    /\ av.deleteConfirmId = 2
    /\ av.deleting[2] = 1
    /\ av.deleting[1] = 0
    /\ av.archives = AvIds


\* The EnsureMirrored runs in progress on Repository r: the per-repo tasks at
\* work on it and the update-all task while r is the Repository it has at hand.
EnsureMirroredOn(r) ==
    {t \in TaskIds :
        \/ tasks[t].kind = "ensure" /\ tasks[t].key = r
                                    /\ tasks[t].pc \in RunningStages \cup {"commit"}
        \/ tasks[t].kind = "update_all" /\ tasks[t].pc = "mirroring" /\ tasks[t].repo = r}

C25_TasksFinishAndRelease ==
    /\ \A t \in TaskIds :
          (tasks[t].pc = "queued")
          ~> (tasks[t].pc = "over" /\ active_tasks[tasks[t].key] # t)
    /\ [](Running = {} => permits = N)


\* C26: once no fetchRepos call is pending (none in flight, no timeout
\* callback waiting) and one has resolved, repos is what list_repos answers
\* for the statusFilter the store holds.
C26_ReposMatchFilter ==
    (rs_fetching = 0 /\ sy.timers = 0 /\ rs_last.op = "fetchRepos")
    => rs_repos = list_repos(sy.table, sy.statusFilter)


\* C27: the backend gives every row its own id and lists every row once;
\* repos never holds two entries with the same id.
C27_DistinctIds ==
    \A i, j \in 1 .. Len(rs_repos) : i # j => rs_repos[i].id # rs_repos[j].id


\* C28: an entry of activeTasks made by a task-progress event goes away once
\* the task of its repository has finished, and the status bar's count comes
\* back to 0 when no task of the backend runs.
C28_CountTracksRunningWork ==
    /\ \A u \in TsUrls :
          (MapHas(activeTasks, u) /\ Finished(u))
          ~> (~MapHas(activeTasks, u) \/ ~Finished(u))
    /\ ((\A u \in TsUrls : Finished(u)) ~> (taskCount = 0 \/ \E u \in TsUrls : ~Finished(u)))


\* C29: for a time at least 60 seconds before now formatRelativeTime returns
\* "n unit(s) ago" with n at least 1; for a time less than 60 seconds before
\* now, or after now, it returns "just now".
C29_CountAtLeastOne ==
    rt.out # NoPhrase =>
        IF rt.diff.past /\ rt.diff.seconds >= 60
        THEN rt.out.text # "just now" /\ rt.out.n >= 1
        ELSE rt.out = Phrase(0, "just now")


\* C30: after errors of the log stream setupLogStreaming is run again at most
\* MAX_SSE_RECONNECT_ATTEMPTS times with no message in between, each time
\* SSE_RECONNECT_DELAY after the error, and at most one EventSource is open.
C30_ReconnectBounded ==
    /\ sse.reruns <= MAX_SSE_RECONNECT_ATTEMPTS
    /\ sse.delays \subseteq {SSE_RECONNECT_DELAY}
    /\ Cardinality(sse.open) <= 1

====
